---- MODULE Spec2Model ----
(***************************************************************************)
(* Model of the scoring and recommendation engine of Vibeyf-ai             *)
(* (services/scoring_service.py, config/config.py), of its embedding index *)
(* (services/nlp_service.py), of its questionnaire                         *)
(* (services/questionnaire_service.py) and of the request handler (api.py, *)
(* services/gemini_service.py).                                            *)
(*                                                                         *)
(* Representation choices.                                                 *)
(*  - A Python float is an exact rational [n |-> numerator, d |->          *)
(*    denominator] in lowest terms with d > 0.  Rounding of IEEE doubles   *)
(*    is not modelled; every arithmetic step of the source is performed    *)
(*    exactly.                                                             *)
(*  - A Python str is a sequence of characters.  A character is a one      *)
(*    letter TLA+ string; the accented letters of the mood vocabulary are  *)
(*    written "e'" (e acute) and "E'" (E acute).  str.lower() is Lower.    *)
(*  - A Python dict is a function whose DOMAIN is the set of keys present; *)
(*    dict.get(k, default) is Get.                                         *)
(***************************************************************************)
EXTENDS Integers, Sequences, FiniteSets, TLC

VARIABLES
    corpus,           \* elements_avec_similarite handed to the scorer
    args,             \* arguments of the last calculer_scores_elements call
    elements_scores,  \* list returned by calculer_scores_elements
    recommandations,  \* bundle returned by generer_recommandations
    pc,               \* position in the request
    m_texte,          \* calculer_score_mood_match: texte_user
    m_mood,           \* calculer_score_mood_match: mood_element
    m_score,          \* calculer_score_mood_match: returned value
    a_prefs,          \* calculer_score_audio_match: preferences_user
    a_feat,           \* calculer_score_audio_match: caracteristiques_element
    a_score,          \* calculer_score_audio_match: returned value
    index,            \* MoteurNLP: referentiel_embeddings and referentiel_texts
    cache,            \* content of the file embeddings_cache.pkl
    nlp_res,          \* outcome of the last MoteurNLP call
    quest,            \* QuestionnaireService: answers given, structured, preferences
    api               \* VibeyfAIBackend.process_recommendation: collaborators and outcome

vars == <<corpus, args, elements_scores, recommandations, pc,
          m_texte, m_mood, m_score, a_prefs, a_feat, a_score,
          index, cache, nlp_res, quest, api>>

\* the state of the services a scoring call does not touch
others == <<index, cache, nlp_res, quest, api>>

\* None, and a value that is not None
NoneVal == [is_none |-> TRUE]
Some(v) == [is_none |-> FALSE, v |-> v]

OthersIdle ==
    /\ index = [referentiel_embeddings |-> NoneVal, referentiel_texts |-> NoneVal]
    /\ cache = [etat |-> "missing"]
    /\ nlp_res = NoneVal
    /\ quest = NoneVal
    /\ api = NoneVal

-----------------------------------------------------------------------------
(* Exact rational arithmetic standing for Python floats.                   *)

Abs(x) == IF x < 0 THEN -x ELSE x

RECURSIVE GCD(_, _)
GCD(a, b) == IF b = 0 THEN a ELSE GCD(b, a % b)

R(num, den) ==
    LET s == IF den < 0 THEN -1 ELSE 1
        g == GCD(Abs(num), Abs(den))
    IN  [n |-> (s * num) \div g, d |-> (s * den) \div g]

Zero == R(0, 1)
Half == R(1, 2)
One  == R(1, 1)

RAdd(x, y) == R(x.n * y.d + y.n * x.d, x.d * y.d)
RSub(x, y) == R(x.n * y.d - y.n * x.d, x.d * y.d)
RMul(x, y) == R(x.n * y.n, x.d * y.d)
RDiv(x, y) == R(x.n * y.d, x.d * y.n)
RLe(x, y)  == x.n * y.d <= y.n * x.d
RLt(x, y)  == x.n * y.d < y.n * x.d
RMin(x, y) == IF RLe(x, y) THEN x ELSE y
RMax(x, y) == IF RLe(y, x) THEN x ELSE y
RAbs(x)    == [n |-> Abs(x.n), d |-> x.d]
InUnit(x)  == RLe(Zero, x) /\ RLe(x, One)

-----------------------------------------------------------------------------
(* Strings as character sequences.                                         *)

UpperToLower ==
    [c \in {"A", "B", "C", "E", "I", "J", "K", "O", "P", "R", "S", "T", "X", "E'"} |->
        CASE c = "A" -> "a" [] c = "B" -> "b" [] c = "C" -> "c"
          [] c = "E" -> "e" [] c = "I" -> "i" [] c = "J" -> "j"
          [] c = "K" -> "k"
          [] c = "O" -> "o" [] c = "P" -> "p" [] c = "R" -> "r"
          [] c = "S" -> "s" [] c = "T" -> "t" [] c = "X" -> "x"
          [] c = "E'" -> "e'"]

LowerChar(c) == IF c \in DOMAIN UpperToLower THEN UpperToLower[c] ELSE c

\* str.lower()
Lower(s) == [i \in 1..Len(s) |-> LowerChar(s[i])]

\* the Python test `needle in haystack` on two strings
IsSubstring(needle, haystack) ==
    \E i \in 0..(Len(haystack) - Len(needle)) :
        \A j \in 1..Len(needle) : haystack[i + j] = needle[j]

\* the Python test `x in list`
InList(x, list) == \E i \in 1..Len(list) : list[i] = x

\* dict.get(k, default)
Get(dict, k, default) == IF k \in DOMAIN dict THEN dict[k] ELSE default

EmptyStr  == <<>>
EmptyDict == <<>>

-----------------------------------------------------------------------------
(* config/config.py                                                        *)

joyeux       == <<"j", "o", "y", "e", "u", "x">>
triste       == <<"t", "r", "i", "s", "t", "e">>
energique    == <<"e'", "n", "e", "r", "g", "i", "q", "u", "e">>
calme        == <<"c", "a", "l", "m", "e">>
melancolique == <<"m", "e'", "l", "a", "n", "c", "o", "l", "i", "q", "u", "e">>
motivant     == <<"m", "o", "t", "i", "v", "a", "n", "t">>
romantique   == <<"r", "o", "m", "a", "n", "t", "i", "q", "u", "e">>
festif       == <<"f", "e", "s", "t", "i", "f">>
relaxant     == <<"r", "e", "l", "a", "x", "a", "n", "t">>
intense      == <<"i", "n", "t", "e", "n", "s", "e">>

\* MOOD_MAPPINGS.keys(), in insertion order (the criteria ranges are not read
\* by the scorer)
MOOD_MAPPINGS ==
    <<joyeux, triste, energique, calme, melancolique, motivant, romantique,
      festif, relaxant, intense>>

MoodNames == {MOOD_MAPPINGS[i] : i \in 1..Len(MOOD_MAPPINGS)}

\* WEIGHTS
WEIGHTS ==
    [semantic_similarity |-> R(5, 10),
     mood_match          |-> R(2, 10),
     preference_likert   |-> R(2, 10),
     audio_features      |-> R(1, 10)]

TOP_N_RECOMMENDATIONS == 3

-----------------------------------------------------------------------------
(* SystemeScoring.calculer_score_audio_match                               *)

\* the body of the loop over common_features: one per-feature score
FeatureScoreUnclamped(feature, pref_val, elem_val) ==
    LET diff == RAbs(RSub(pref_val, elem_val))
    IN  IF feature = "loudness" THEN RSub(One, RDiv(diff, R(30, 1)))
        ELSE IF feature \in {"tempo", "bpm"} THEN RSub(One, RDiv(diff, R(40, 1)))
        ELSE IF feature = "duration_ms" THEN RSub(One, RDiv(diff, R(120000, 1)))
        ELSE RSub(One, diff)

FeatureScore(feature, pref_val, elem_val) ==
    LET diff == RAbs(RSub(pref_val, elem_val))
    IN  IF feature = "loudness"
            THEN RSub(One, RMin(RDiv(diff, R(30, 1)), One))
        ELSE IF feature \in {"tempo", "bpm"}
            THEN RSub(One, RMin(RDiv(diff, R(40, 1)), One))
        ELSE IF feature = "duration_ms"
            THEN RSub(One, RMin(RDiv(diff, R(120000, 1)), One))
        ELSE RSub(One, diff)

RECURSIVE SumScores(_, _, _)
SumScores(keys, prefs, feat) ==
    IF keys = {} THEN Zero
    ELSE LET k == CHOOSE x \in keys : TRUE
         IN  RAdd(FeatureScore(k, prefs[k], feat[k]),
                  SumScores(keys \ {k}, prefs, feat))

calculer_score_audio_match(preferences_user, caracteristiques_element) ==
    IF DOMAIN preferences_user = {} \/ DOMAIN caracteristiques_element = {}
    THEN Half
    ELSE LET common_features ==
                 DOMAIN preferences_user \cap DOMAIN caracteristiques_element
         IN  IF common_features = {} THEN Half
             ELSE RDiv(SumScores(common_features, preferences_user,
                                 caracteristiques_element),
                       R(Cardinality(common_features), 1))

calculer_score_preference_likert_neutre(preferences_user, caracteristiques_element) == Half

\* SystemeScoring.calculer_score_preference_likert
calculer_score_preference_likert(preferences_user, caracteristiques_element) ==
    calculer_score_audio_match(preferences_user, caracteristiques_element)

-----------------------------------------------------------------------------
(* SystemeScoring.calculer_score_mood_match                                *)

\* the local table moods_similaires
moods_similaires ==
    [m \in MoodNames |->
        CASE m = joyeux       -> <<festif, motivant>>
          [] m = triste       -> <<melancolique>>
          [] m = energique    -> <<motivant, intense, festif>>
          [] m = calme        -> <<relaxant>>
          [] m = melancolique -> <<triste, romantique>>
          [] m = motivant     -> <<energique, intense>>
          [] m = romantique   -> <<calme, melancolique>>
          [] m = festif       -> <<joyeux, energique>>
          [] m = relaxant     -> <<calme>>
          [] m = intense      -> <<energique, motivant>>]

\* the scan of texte_user for the names of MOOD_MAPPINGS (moods_recherches
\* absent or empty)
DetecterMoodsSansLower(texte_user) ==
    SelectSeq(MOOD_MAPPINGS, LAMBDA mood : IsSubstring(mood, texte_user))

DetecterMoods(texte_user) ==
    LET texte_lower == Lower(texte_user)
    IN  SelectSeq(MOOD_MAPPINGS, LAMBDA mood : IsSubstring(mood, texte_lower))

\* moods_recherches is <<>> for None and for the empty list: both are falsy
calculer_score_mood_match_symetrique(texte_user, mood_element, moods_recherches) ==
    LET recherches == IF moods_recherches = <<>>
                      THEN DetecterMoods(texte_user)
                      ELSE moods_recherches
    IN  IF InList(mood_element, recherches) THEN One
        ELSE IF \E i \in 1..Len(recherches) :
                    \/ InList(mood_element, Get(moods_similaires, recherches[i], <<>>))
                    \/ InList(recherches[i], Get(moods_similaires, mood_element, <<>>))
             THEN R(6, 10)
        ELSE R(3, 10)

calculer_score_mood_match(texte_user, mood_element, moods_recherches) ==
    LET recherches == IF moods_recherches = <<>>
                      THEN DetecterMoods(texte_user)
                      ELSE moods_recherches
    IN  IF InList(mood_element, recherches) THEN One
        ELSE IF \E i \in 1..Len(recherches) :
                    InList(mood_element, Get(moods_similaires, recherches[i], <<>>))
             THEN R(6, 10)
        ELSE R(3, 10)

-----------------------------------------------------------------------------
(* SystemeScoring.calculer_score_global                                    *)

calculer_score_global_equal_weights(similarite_semantique, score_mood, score_preferences, score_audio) ==
    RMul(R(1, 4),
         RAdd(RAdd(similarite_semantique, score_mood),
              RAdd(score_preferences, score_audio)))

calculer_score_global(similarite_semantique, score_mood, score_preferences, score_audio) ==
    RAdd(RAdd(RAdd(RMul(WEIGHTS.semantic_similarity, similarite_semantique),
                   RMul(WEIGHTS.mood_match, score_mood)),
              RMul(WEIGHTS.preference_likert, score_preferences)),
         RMul(WEIGHTS.audio_features, score_audio))

-----------------------------------------------------------------------------
(* SystemeScoring.calculer_scores_elements                                 *)

T_chanson  == <<"c", "h", "a", "n", "s", "o", "n">>
T_mood     == <<"m", "o", "o", "d">>
T_ambiance == <<"a", "m", "b", "i", "a", "n", "c", "e">>

\* boost_map.get(niveau_ouverture, 0.40)
boost_map(niveau_ouverture) ==
    CASE niveau_ouverture = 1 -> R(80, 100)
      [] niveau_ouverture = 2 -> R(60, 100)
      [] niveau_ouverture = 3 -> R(40, 100)
      [] niveau_ouverture = 4 -> R(25, 100)
      [] niveau_ouverture = 5 -> R(15, 100)
      [] OTHER                -> R(40, 100)

\* the match of the first associated mood only
PremierMoodAssocie(texte_user, moods, moods_detectes) ==
    calculer_score_mood_match(texte_user, moods[1], moods_detectes)

\* max(scores_moods) over data['moods_associes']
RECURSIVE MaxMood(_, _, _)
MaxMood(texte_user, moods, moods_detectes) ==
    IF Len(moods) = 1
    THEN calculer_score_mood_match(texte_user, moods[1], moods_detectes)
    ELSE RMax(calculer_score_mood_match(texte_user, moods[1], moods_detectes),
              MaxMood(texte_user, Tail(moods), moods_detectes))

\* the score de mood block
ScoreMood(element, data, texte_user, moods_detectes) ==
    IF element.type = T_mood
    THEN calculer_score_mood_match(texte_user, element.id, moods_detectes)
    ELSE IF "moods_associes" \in DOMAIN data
         THEN IF data.moods_associes = <<>> THEN Half
              ELSE MaxMood(texte_user, data.moods_associes, moods_detectes)
         ELSE Half

\* the guard of the genre boost
GenreBoostAppliesAnyType(element, genres_preferes) ==
    /\ genres_preferes # <<>>
    /\ InList(Lower(Get(element, "genre", EmptyStr)), genres_preferes)

GenreBoostApplies(element, genres_preferes) ==
    /\ genres_preferes # <<>>
    /\ element.type = T_chanson
    /\ InList(Lower(Get(element, "genre", EmptyStr)), genres_preferes)

\* score_global = min(score_global * (1 + genre_boost), 1.0)
AppliquerBoostSansPlafond(score_global, genre_boost) ==
    RMul(score_global, RAdd(One, genre_boost))

AppliquerBoost(score_global, genre_boost) ==
    RMin(RMul(score_global, RAdd(One, genre_boost)), One)

\* where the loop body reads the score it starts from
ScoreDeBaseCumule(element, score_calcule) ==
    IF "scores" \in DOMAIN element THEN element.scores.global ELSE score_calcule

ScoreDeBase(element, score_calcule) == score_calcule

\* the body of the loop over elements_avec_similarite: element_enrichi
ScoreElement(element, preferences_user, texte_user, moods_detectes, genres_preferes, niveau_ouverture) ==
    LET similarite_semantique == Get(element, "similarite_semantique", Zero)
        data == Get(element, "data", EmptyDict)
        score_mood == ScoreMood(element, data, texte_user, moods_detectes)
        score_audio ==
            IF "caracteristiques_moyennes" \in DOMAIN data
            THEN calculer_score_audio_match(preferences_user,
                                            data.caracteristiques_moyennes)
            ELSE Half
        score_preferences ==
            calculer_score_preference_likert(
                preferences_user, Get(data, "caracteristiques_moyennes", EmptyDict))
        score_lineaire ==
            ScoreDeBase(element,
                        calculer_score_global(similarite_semantique, score_mood,
                                              score_preferences, score_audio))
        boosted == GenreBoostApplies(element, genres_preferes)
        genre_boost == IF boosted THEN boost_map(niveau_ouverture) ELSE Zero
        score_global == IF boosted THEN AppliquerBoost(score_lineaire, genre_boost)
                        ELSE score_lineaire
        scores == [global                |-> score_global,
                   similarite_semantique |-> similarite_semantique,
                   mood_match            |-> score_mood,
                   preferences_likert    |-> score_preferences,
                   audio_features        |-> score_audio,
                   genre_boost           |-> genre_boost]
    IN  [k \in DOMAIN element \cup {"scores"} |->
            IF k = "scores" THEN scores ELSE element[k]]

\* an insertion that puts an element before the elements of equal global
RECURSIVE InsertDescInstable(_, _)
InsertDescInstable(sorted, e) ==
    IF sorted = <<>> THEN <<e>>
    ELSE IF RLt(e.scores.global, Head(sorted).scores.global)
         THEN <<Head(sorted)>> \o InsertDescInstable(Tail(sorted), e)
         ELSE <<e>> \o sorted

\* list.sort(key=global, reverse=True): stable, descending
RECURSIVE InsertDesc(_, _)
InsertDesc(sorted, e) ==
    IF sorted = <<>> THEN <<e>>
    ELSE IF RLe(e.scores.global, Head(sorted).scores.global)
         THEN <<Head(sorted)>> \o InsertDesc(Tail(sorted), e)
         ELSE <<e>> \o sorted

RECURSIVE SortDescFrom(_, _)
SortDescFrom(sorted, rest) ==
    IF rest = <<>> THEN sorted
    ELSE SortDescFrom(InsertDesc(sorted, Head(rest)), Tail(rest))

\* sorted(key=global): stable, ascending
RECURSIVE InsertAsc(_, _)
InsertAsc(sorted, e) ==
    IF sorted = <<>> THEN <<e>>
    ELSE IF RLe(Head(sorted).scores.global, e.scores.global)
         THEN <<Head(sorted)>> \o InsertAsc(Tail(sorted), e)
         ELSE <<e>> \o sorted

RECURSIVE SortAscFrom(_, _)
SortAscFrom(sorted, rest) ==
    IF rest = <<>> THEN sorted
    ELSE SortAscFrom(InsertAsc(sorted, Head(rest)), Tail(rest))

TriAscendant(seq) == SortAscFrom(<<>>, seq)

TriCroissant(seq) == TriAscendant(seq)

TriDecroissant(seq) == SortDescFrom(<<>>, seq)

\* a scoring that rescales every global score by the best one of the list
calculer_scores_elements_normalise(elements_avec_similarite, preferences_user, texte_user, moods_detectes, genres_preferes, niveau_ouverture) ==
    LET elements ==
            TriDecroissant(
                [i \in 1..Len(elements_avec_similarite) |->
                    ScoreElement(elements_avec_similarite[i], preferences_user,
                                 texte_user, moods_detectes, genres_preferes,
                                 niveau_ouverture)])
    IN  IF elements = <<>> THEN elements
        ELSE IF ~RLt(Zero, elements[1].scores.global) THEN elements
        ELSE [i \in 1..Len(elements) |->
                [elements[i] EXCEPT
                    !.scores.global = RDiv(@, elements[1].scores.global)]]

calculer_scores_elements(elements_avec_similarite, preferences_user, texte_user, moods_detectes, genres_preferes, niveau_ouverture) ==
    TriDecroissant(
        [i \in 1..Len(elements_avec_similarite) |->
            ScoreElement(elements_avec_similarite[i], preferences_user, texte_user,
                         moods_detectes, genres_preferes, niveau_ouverture)])

-----------------------------------------------------------------------------
(* SystemeScoring.generer_recommandations                                  *)

Minimum(a, b) == IF a <= b THEN a ELSE b

\* l[:n] for n >= 0
Take(l, n) == SubSeq(l, 1, IF n < Len(l) THEN n ELSE Len(l))

\* unique_key of one element
UniqueKey(element) ==
    IF element.type = T_chanson
    THEN Lower(Get(element.data, "nom", EmptyStr) \o <<"_">>
               \o Get(element.data, "artiste", EmptyStr))
    ELSE element.type \o <<"_">> \o element.id

\* a deduplication that keeps the last occurrence of each unique_key
RECURSIVE DedupliquerDernier(_, _, _)
DedupliquerDernier(elements, seen_ids, elements_uniques) ==
    IF elements = <<>> THEN elements_uniques
    ELSE LET element == Head(elements)
             reste == Tail(elements)
         IN  IF \E i \in 1..Len(reste) : UniqueKey(reste[i]) = UniqueKey(element)
             THEN DedupliquerDernier(reste, seen_ids, elements_uniques)
             ELSE DedupliquerDernier(reste, seen_ids,
                                     Append(elements_uniques, element))

\* the deduplication loop: first occurrence of each unique_key
RECURSIVE Dedupliquer(_, _, _)
Dedupliquer(elements, seen_ids, elements_uniques) ==
    IF elements = <<>> THEN elements_uniques
    ELSE LET element == Head(elements)
             unique_key == UniqueKey(element)
         IN  IF unique_key \notin seen_ids
             THEN Dedupliquer(Tail(elements), seen_ids \cup {unique_key},
                              Append(elements_uniques, element))
             ELSE Dedupliquer(Tail(elements), seen_ids, elements_uniques)

RECURSIVE SumGlobal(_)
SumGlobal(elements) ==
    IF elements = <<>> THEN Zero
    ELSE RAdd(Head(elements).scores.global, SumGlobal(Tail(elements)))

RECURSIVE MaxGlobal(_)
MaxGlobal(elements) ==
    IF Len(elements) = 1 THEN elements[1].scores.global
    ELSE RMax(elements[1].scores.global, MaxGlobal(Tail(elements)))

RECURSIVE MinGlobal(_)
MinGlobal(elements) ==
    IF Len(elements) = 1 THEN elements[1].scores.global
    ELSE RMin(elements[1].scores.global, MinGlobal(Tail(elements)))

\* statistics that np.max and np.min would give back for an empty list if they
\* returned an undefined value as np.mean does
StatistiquesIndefinies(elements) ==
    IF elements = <<>>
    THEN [score_moyen |-> NoneVal, score_max |-> NoneVal,
          score_min |-> NoneVal, nombre_elements_evalues |-> 0]
    ELSE [score_moyen |-> RDiv(SumGlobal(elements), R(Len(elements), 1)),
          score_max   |-> MaxGlobal(elements),
          score_min   |-> MinGlobal(elements),
          nombre_elements_evalues |-> Len(elements)]

\* np.mean, np.max and np.min of scores_globaux; np.mean of an empty list only
\* warns, np.max of an empty list raises ValueError
Statistiques(elements) ==
    IF elements = <<>>
    THEN [erreur |-> "ValueError"]
    ELSE [score_moyen |-> RDiv(SumGlobal(elements), R(Len(elements), 1)),
          score_max   |-> MaxGlobal(elements),
          score_min   |-> MinGlobal(elements),
          nombre_elements_evalues |-> Len(elements)]

\* a top_par_type taken from the list before deduplication
TopParTypeAvecDoublons(scored, elements_uniques) ==
    LET types == {scored[i].type : i \in 1..Len(scored)}
    IN  [t \in types |->
            Take(SelectSeq(scored, LAMBDA e : e.type = t), 3)]

\* top_par_type: per kind of elements_uniques, elements_type[:min(3, len)]
TopParType(scored, elements_uniques) ==
    LET types == {elements_uniques[i].type : i \in 1..Len(elements_uniques)}
    IN  [t \in types |->
            LET elements_type == SelectSeq(elements_uniques, LAMBDA e : e.type = t)
            IN  SubSeq(elements_type, 1, Minimum(3, Len(elements_type)))]

\* points_faibles taken from the deduplicated list
PointsFaiblesUniques(scored, elements_uniques) ==
    Take(TriAscendant(elements_uniques), 5)

\* points_faibles: sorted(elements_scores, key = global)[:5]
PointsFaibles(scored, elements_uniques) ==
    Take(TriAscendant(scored), 5)

\* a ranking that cuts the scored list to top_n before removing duplicates
generer_recommandations_tronque_avant(scored, top_n) ==
    IF scored = <<>> THEN [erreur |-> "ValueError"]
    ELSE LET elements_uniques == Dedupliquer(scored, {}, <<>>)
             types == {elements_uniques[i].type : i \in 1..Len(elements_uniques)}
         IN  [top_recommandations |-> Dedupliquer(Take(scored, top_n), {}, <<>>),
              top_par_type |->
                  [t \in types |->
                      Take(SelectSeq(elements_uniques, LAMBDA e : e.type = t), 3)],
              points_faibles |-> Take(TriAscendant(scored), 5),
              statistiques |-> Statistiques(scored)]

\* the bundle; an exception raised while the statistics are built leaves the
\* call and no bundle is returned
generer_recommandations(scored, top_n) ==
    LET elements_uniques == Dedupliquer(scored, {}, <<>>)
        statistiques == Statistiques(scored)
    IN  IF "erreur" \in DOMAIN statistiques
        THEN [erreur |-> statistiques.erreur]
        ELSE [top_recommandations |-> Take(elements_uniques, top_n),
              top_par_type |-> TopParType(scored, elements_uniques),
              points_faibles |-> PointsFaibles(scored, elements_uniques),
              statistiques |-> statistiques]

-----------------------------------------------------------------------------
(* Inputs.                                                                 *)

rock     == <<"r", "o", "c", "k">>
RockCap  == <<"R", "o", "c", "k">>
pop      == <<"p", "o", "p">>

\* candidate referential elements, each with the similarity the NLP engine gave
Catalogue ==
    << [type |-> T_chanson, id |-> <<"s", "1">>, genre |-> rock,
        similarite_semantique |-> R(9, 10),
        data |-> [nom |-> <<"a">>, artiste |-> <<"x">>]],
       [type |-> T_chanson, id |-> <<"s", "2">>, genre |-> pop,
        similarite_semantique |-> R(8, 10),
        data |-> [nom |-> <<"b">>, artiste |-> <<"x">>]],
       [type |-> T_chanson, id |-> <<"s", "3">>, genre |-> rock,
        similarite_semantique |-> R(85, 100),
        data |-> [nom |-> <<"c">>, artiste |-> <<"x">>]],
       [type |-> T_chanson, id |-> <<"s", "4">>, genre |-> RockCap,
        similarite_semantique |-> One,
        data |-> [nom |-> <<"A">>, artiste |-> <<"X">>,
                  caracteristiques_moyennes |->
                      [energy |-> One, tempo |-> R(120, 1), loudness |-> R(-5, 1)]]],
       [type |-> T_chanson, id |-> <<"s", "5">>, genre |-> rock,
        similarite_semantique |-> R(-3, 5),
        data |-> [nom |-> <<"e">>, artiste |-> <<"x">>]],
       [type |-> T_mood, id |-> joyeux,
        similarite_semantique |-> Half,
        data |-> [nom |-> joyeux,
                  caracteristiques_moyennes |-> [energy |-> R(1, 4)]]],
       [type |-> T_ambiance, id |-> <<"v">>, genre |-> rock,
        data |-> [nom |-> <<"V">>, moods_associes |-> <<motivant, joyeux>>]] >>

MaxItems == 3

\* sequences of distinct catalogue entries, at most MaxItems long
RECURSIVE CorpusDe(_)
CorpusDe(len) ==
    IF len = 0 THEN {<<>>}
    ELSE {Append(c, i) : c \in {x \in CorpusDe(len - 1) : Len(x) = len - 1},
                         i \in 1..Len(Catalogue)}

IndexLists ==
    UNION {{c \in CorpusDe(len) : \A i, j \in 1..len : i # j => c[i] # c[j]}
           : len \in 0..MaxItems}

PrefsChoices ==
    {EmptyDict,
     [energy |-> R(3, 4), tempo |-> R(150, 1), loudness |-> R(-15, 1),
      openness |-> R(3, 5)]}

TexteChoices ==
    {<<"J", "o", "y", "e", "u", "x">>, festif}

GenresChoices == {<<>>, <<rock>>}

NiveauChoices == {1, 2, 3, 4, 5, 7}

TopNChoices == {TOP_N_RECOMMENDATIONS}

NoArgs == [called |-> FALSE]

-----------------------------------------------------------------------------
(* The request: score the corpus, then rank.                               *)

PureIdle ==
    /\ m_texte = <<>> /\ m_mood = <<>> /\ m_score = Zero
    /\ a_prefs = EmptyDict /\ a_feat = EmptyDict /\ a_score = Zero

Init ==
    /\ \E c \in IndexLists : corpus = [i \in 1..Len(c) |-> Catalogue[c[i]]]
    /\ args = NoArgs
    /\ elements_scores = <<>>
    /\ recommandations = <<>>
    /\ pc = "corpus"
    /\ PureIdle
    /\ OthersIdle

CalculerScoresElements ==
    /\ pc = "corpus"
    /\ \E p \in PrefsChoices, t \in TexteChoices, g \in GenresChoices,
          n \in NiveauChoices :
          /\ args' = [called |-> TRUE, preferences_user |-> p, texte_user |-> t,
                      genres_preferes |-> g, niveau_ouverture |-> n]
          /\ elements_scores' = calculer_scores_elements(corpus, p, t, <<>>, g, n)
    /\ pc' = "scored"
    /\ UNCHANGED <<corpus, recommandations, m_texte, m_mood, m_score,
                   a_prefs, a_feat, a_score, others>>

\* calculer_scores_elements called again on the list it returned
RecalculerScores ==
    /\ pc = "scored"
    /\ elements_scores' =
           calculer_scores_elements(elements_scores, args.preferences_user,
                                    args.texte_user, <<>>, args.genres_preferes,
                                    args.niveau_ouverture)
    /\ pc' = "rescored"
    /\ UNCHANGED <<corpus, args, recommandations, m_texte, m_mood, m_score,
                   a_prefs, a_feat, a_score, others>>

GenererRecommandations ==
    /\ pc = "scored"
    /\ \E top_n \in TopNChoices :
          recommandations' = generer_recommandations(elements_scores, top_n)
    /\ pc' = IF elements_scores = <<>> THEN "failed" ELSE "done"
    /\ UNCHANGED <<corpus, args, elements_scores, m_texte, m_mood, m_score,
                   a_prefs, a_feat, a_score, others>>

Next == CalculerScoresElements \/ RecalculerScores \/ GenererRecommandations

Spec == Init /\ [][Next]_vars

-----------------------------------------------------------------------------
(* calculer_score_mood_match as a call of its own.                         *)

MaxWords == 2

Words ==
    MoodNames \cup
    { <<"J", "o", "y", "e", "u", "x">>,
      <<"T", "R", "I", "S", "T", "E">>,
      <<"t", "r", "i", "s", "t", "e", "s", "s", "e">>,
      <<"n", "o", "s", "t", "a", "l", "g", "i", "q", "u", "e">>,
      <<"m", "u", "s", "i", "q", "u", "e">> }

\* texts of at most MaxWords words separated by one space
RECURSIVE TextesDe(_)
TextesDe(k) ==
    IF k = 0 THEN {<<>>}
    ELSE LET shorter == TextesDe(k - 1)
         IN  shorter \cup
             {IF t = <<>> THEN w ELSE t \o <<" ">> \o w : t \in shorter, w \in Words}

MoodElementChoices ==
    MoodNames \cup
    { <<"J", "o", "y", "e", "u", "x">>,
      <<"n", "o", "s", "t", "a", "l", "g", "i", "q", "u", "e">>,
      <<"r", "e", "l", "a", "x">> }

ScoringIdle ==
    /\ corpus = <<>> /\ args = NoArgs /\ elements_scores = <<>>
    /\ recommandations = <<>>

InitMood ==
    /\ m_texte \in TextesDe(MaxWords)
    /\ m_mood \in MoodElementChoices
    /\ m_score = Zero
    /\ pc = "mood_call"
    /\ a_prefs = EmptyDict /\ a_feat = EmptyDict /\ a_score = Zero
    /\ ScoringIdle
    /\ OthersIdle

\* calculer_score_mood_match(texte_user, mood_element, None)
MoodMatch ==
    /\ pc = "mood_call"
    /\ m_score' = calculer_score_mood_match(m_texte, m_mood, <<>>)
    /\ pc' = "mood_returned"
    /\ UNCHANGED <<corpus, args, elements_scores, recommandations,
                   m_texte, m_mood, a_prefs, a_feat, a_score, others>>

NextMood == MoodMatch

SpecMood == InitMood /\ [][NextMood]_vars

-----------------------------------------------------------------------------
(* calculer_score_audio_match as a call of its own.                        *)

AudioKeys == {"energy", "tempo", "loudness", "duration_ms"}

PrefValues ==
    [k \in AudioKeys |->
        CASE k = "energy"      -> {Zero, R(3, 4)}
          [] k = "tempo"       -> {R(60, 1), R(150, 1)}
          [] k = "loudness"    -> {R(-30, 1), Zero}
          [] k = "duration_ms" -> {R(180000, 1), R(200000, 1)}]

FeatValues ==
    [k \in AudioKeys |->
        CASE k = "energy"      -> {Zero, R(3, 4), One}
          [] k = "tempo"       -> {R(60, 1), R(120, 1), R(200, 1)}
          [] k = "loudness"    -> {R(-60, 1), R(-30, 1), R(-5, 1)}
          [] k = "duration_ms" -> {R(180000, 1), R(240000, 1), R(400000, 1)}]

\* every dict over a subset of AudioKeys with values from the given sets
DictsOver(values) ==
    UNION {{f \in [keys -> UNION {values[k] : k \in keys}] :
                \A k \in keys : f[k] \in values[k]}
           : keys \in SUBSET AudioKeys}

InitAudio ==
    /\ a_prefs \in DictsOver(PrefValues)
    /\ a_feat \in DictsOver(FeatValues)
    /\ a_score = Zero
    /\ pc = "audio_call"
    /\ m_texte = <<>> /\ m_mood = <<>> /\ m_score = Zero
    /\ ScoringIdle
    /\ OthersIdle

AudioMatch ==
    /\ pc = "audio_call"
    /\ a_score' = calculer_score_audio_match(a_prefs, a_feat)
    /\ pc' = "audio_returned"
    /\ UNCHANGED <<corpus, args, elements_scores, recommandations,
                   m_texte, m_mood, m_score, a_prefs, a_feat, others>>

NextAudio == AudioMatch

SpecAudio == InitAudio /\ [][NextAudio]_vars

-----------------------------------------------------------------------------
(* Properties.                                                             *)

Scored == pc \in {"scored", "rescored", "done"}

\* 0.5*sem + 0.2*mood + 0.2*pref + 0.1*audio of a recorded ScoreVector
Lineaire(sc) ==
    RAdd(RAdd(RMul(R(1, 2), sc.similarite_semantique), RMul(R(1, 5), sc.mood_match)),
         RAdd(RMul(R(1, 5), sc.preferences_likert), RMul(R(1, 10), sc.audio_features)))

\* the boost the table gives for an openness level
BoostAttendu(niveau) ==
    IF niveau = 1 THEN R(4, 5)
    ELSE IF niveau = 2 THEN R(3, 5)
    ELSE IF niveau = 3 THEN R(2, 5)
    ELSE IF niveau = 4 THEN R(1, 4)
    ELSE IF niveau = 5 THEN R(3, 20)
    ELSE R(2, 5)

\* the item is a song whose lower-cased genre tag is a preferred genre
GenrePrefere(e, genres) ==
    /\ e.type = T_chanson
    /\ \E j \in 1..Len(genres) :
          LET tag == IF "genre" \in DOMAIN e THEN e.genre ELSE <<>>
          IN  /\ Len(genres[j]) = Len(tag)
              /\ \A k \in 1..Len(tag) : genres[j][k] = LowerChar(tag[k])

\* C1: for every scored item the global score before any genre boost is
\* 0.5*sem + 0.2*mood + 0.2*pref + 0.1*audio of the sub-scores recorded in its
\* ScoreVector (an unboosted item records exactly that value, a boosted item
\* records it times (1 + genre_boost) unless clamped to 1), and the four
\* weights sum to 1.
C1_GlobalIsLinearCombination ==
    /\ RAdd(RAdd(WEIGHTS.semantic_similarity, WEIGHTS.mood_match),
            RAdd(WEIGHTS.preference_likert, WEIGHTS.audio_features)) = One
    /\ Scored =>
          \A i \in 1..Len(elements_scores) :
              LET sc == elements_scores[i].scores
              IN  IF sc.genre_boost = Zero
                  THEN sc.global = Lineaire(sc)
                  ELSE \/ sc.global = One
                       \/ sc.global = RMul(Lineaire(sc), RAdd(One, sc.genre_boost))

C1_Witness ==
    /\ pc = "scored"
    /\ \E i \in 1..Len(elements_scores) :
          LET sc == elements_scores[i].scores
          IN  /\ sc.genre_boost = Zero
              /\ sc.similarite_semantique # sc.mood_match
              /\ sc.mood_match # sc.preferences_likert
              /\ sc.global = Lineaire(sc)

\* C2: whatever the openness level and the preferred genres, the recorded
\* global score of an item whose semantic similarity is at most 1 never
\* exceeds 1.
C2_GlobalAtMostOne ==
    Scored =>
        \A i \in 1..Len(elements_scores) :
            LET sc == elements_scores[i].scores
            IN  RLe(sc.similarite_semantique, One) => RLe(sc.global, One)

C2_Witness ==
    /\ pc = "scored"
    /\ \E i \in 1..Len(elements_scores) :
          LET sc == elements_scores[i].scores
          IN  /\ RLt(Zero, sc.genre_boost)
              /\ RLt(One, RMul(Lineaire(sc), RAdd(One, sc.genre_boost)))
              /\ sc.global = One

\* C3: every one of semantic_similarity, mood_match, preference_match,
\* audio_match and global of every scored item lies in [0,1] (the corpus has
\* cosine similarities in [-1,1] and 0-1-scale features in [0,1]).
C3_ScoresInUnit ==
    Scored =>
        \A i \in 1..Len(elements_scores) :
            LET sc == elements_scores[i].scores
            IN  /\ InUnit(sc.similarite_semantique)
                /\ InUnit(sc.mood_match)
                /\ InUnit(sc.preferences_likert)
                /\ InUnit(sc.audio_features)
                /\ InUnit(sc.global)

\* C4: scoring again the list a call returned, with the same preferences,
\* text, genres and openness level, yields the same list: the same genre_boost
\* and the same global score for every item, in the same order.
C4_BoostIdempotent ==
    pc = "rescored" =>
        LET first == calculer_scores_elements(
                         corpus, args.preferences_user, args.texte_user, <<>>,
                         args.genres_preferes, args.niveau_ouverture)
        IN  /\ Len(elements_scores) = Len(first)
            /\ \A i \in 1..Len(first) :
                  /\ elements_scores[i].id = first[i].id
                  /\ elements_scores[i].scores.genre_boost = first[i].scores.genre_boost
                  /\ elements_scores[i].scores.global = first[i].scores.global

C4_Witness ==
    /\ pc = "rescored"
    /\ \E i \in 1..Len(elements_scores) :
          LET sc == elements_scores[i].scores
          IN  /\ RLt(Zero, sc.genre_boost)
              /\ RLt(Zero, sc.global)
              /\ RLt(sc.global, One)

\* C5: the boost is applied exactly to the songs whose lower-cased genre tag
\* is in the preferred-genre list; then genre_boost is 0.80/0.60/0.40/0.25/0.15
\* for level 1/2/3/4/5 and 0.40 for any other level and global is
\* min(linear*(1+boost), 1); for every other item genre_boost is 0 and global
\* is the linear combination.
C5_BoostExactlyPreferredSongs ==
    Scored =>
        \A i \in 1..Len(elements_scores) :
            LET e  == elements_scores[i]
                sc == e.scores
                b  == BoostAttendu(args.niveau_ouverture)
            IN  IF GenrePrefere(e, args.genres_preferes)
                THEN /\ sc.genre_boost = b
                     /\ sc.global = RMin(RMul(Lineaire(sc), RAdd(One, b)), One)
                ELSE /\ sc.genre_boost = Zero
                     /\ sc.global = Lineaire(sc)

C5_Witness ==
    /\ pc = "scored"
    /\ args.niveau_ouverture = 7
    /\ \E i, j \in 1..Len(elements_scores) :
          /\ Get(elements_scores[i], "genre", EmptyStr) = RockCap
          /\ elements_scores[i].scores.genre_boost = R(2, 5)
          /\ elements_scores[j].type = T_ambiance
          /\ Get(elements_scores[j], "genre", EmptyStr) = rock
          /\ elements_scores[j].scores.genre_boost = Zero

\* global of corpus item i at an openness level, the other inputs as in args
GlobalAuNiveau(i, genres, niveau) ==
    ScoreElement(corpus[i], args.preferences_user, args.texte_user, <<>>,
                 genres, niveau).scores.global

\* C6: for a song whose genre is preferred, the other inputs fixed, the final
\* global score is non-increasing in the openness level and at every level at
\* least the unboosted global score.
C6_MonotoneInOpenness ==
    Scored =>
        \A i \in 1..Len(corpus) :
            GenrePrefere(corpus[i], args.genres_preferes) =>
                /\ \A L \in 1..4 :
                      RLe(GlobalAuNiveau(i, args.genres_preferes, L + 1),
                          GlobalAuNiveau(i, args.genres_preferes, L))
                /\ \A L \in 1..5 :
                      RLe(GlobalAuNiveau(i, <<>>, L),
                          GlobalAuNiveau(i, args.genres_preferes, L))

\* position of the item with a given id in a list (0 when absent)
Position(list, id) ==
    IF \E i \in 1..Len(list) : list[i].id = id
    THEN CHOOSE i \in 1..Len(list) : list[i].id = id
    ELSE 0

ScenarioRock ==
    /\ Len(corpus) = 3
    /\ {corpus[i] : i \in 1..3} = {Catalogue[1], Catalogue[2], Catalogue[3]}
    /\ args.genres_preferes = <<rock>>
    /\ args.niveau_ouverture = 1

\* C7: three songs rock, pop, rock with similarities 0.9, 0.8, 0.85 and every
\* other sub-score 0.5, preferred genres ['rock'], openness 1: after scoring
\* and generer_recommandations both rock songs rank above the pop song.
C7_RockAbovePop ==
    (pc = "done" /\ ScenarioRock) =>
        LET top == recommandations.top_recommandations
            pPop == Position(elements_scores, <<"s", "2">>)
        IN  /\ \A i \in 1..3 :
                  /\ elements_scores[i].scores.mood_match = Half
                  /\ elements_scores[i].scores.preferences_likert = Half
                  /\ elements_scores[i].scores.audio_features = Half
            /\ Position(elements_scores, <<"s", "1">>) < pPop
            /\ Position(elements_scores, <<"s", "3">>) < pPop
            /\ Len(top) >= 1
            /\ \A i \in 1..Len(top) : top[i] = elements_scores[i]

C7_Witness ==
    /\ pc = "done"
    /\ ScenarioRock
    /\ Len(recommandations.top_recommandations) = 3
    /\ recommandations.top_recommandations[3].genre = pop

-----------------------------------------------------------------------------
(* Properties of calculer_score_audio_match.                               *)

Shared == DOMAIN a_prefs \cap DOMAIN a_feat

\* C8: the returned value lies in [0,1]; it is 1 when the mappings share at
\* least one key and agree on every shared key; it is exactly 0.5 when the key
\* sets are disjoint or either mapping is empty.
C8_AudioMatchRange ==
    pc = "audio_returned" =>
        /\ InUnit(a_score)
        /\ (Shared # {} /\ \A k \in Shared : a_prefs[k] = a_feat[k]) => a_score = One
        /\ Shared = {} => a_score = Half

C8_Witness ==
    /\ pc = "audio_returned"
    /\ Cardinality(Shared) >= 2
    /\ \A k \in Shared : a_prefs[k] = a_feat[k]
    /\ DOMAIN a_feat # Shared
    /\ a_score = One

-----------------------------------------------------------------------------
(* Properties of calculer_score_mood_match.                                *)

\* name occurs in text when letter case is ignored
ContainsIgnoreCase(text, name) ==
    \E i \in 0..(Len(text) - Len(name)) :
        \A j \in 1..Len(name) : LowerChar(text[i + j]) = LowerChar(name[j])

Detected == {m \in MoodNames : ContainsIgnoreCase(m_texte, m)}

\* the entry of the related-moods table for a mood, as a set
Related(m) ==
    IF m \in MoodNames
    THEN {moods_similaires[m][i] : i \in 1..Len(moods_similaires[m])}
    ELSE {}

\* C9 as stated: 1.0 whenever the mood's name occurs in the text, case
\* ignored, whatever the mood.
C9_AnyMoodNameInText ==
    (pc = "mood_returned" /\ ContainsIgnoreCase(m_texte, m_mood)) => m_score = One

\* C9: for a mood of the mood vocabulary (a key of MOOD_MAPPINGS),
\* calculer_score_mood_match(text, mood, None) returns 1.0 whenever the mood's
\* name is a substring of the text, compared case-insensitively.
C9_VocabularyMoodInText ==
    (pc = "mood_returned" /\ m_mood \in MoodNames
        /\ ContainsIgnoreCase(m_texte, m_mood)) => m_score = One

C9_Witness ==
    /\ pc = "mood_returned"
    /\ m_mood = triste
    /\ m_texte = <<"T", "R", "I", "S", "T", "E">> \o <<" ">> \o festif
    /\ m_score = One

\* C10 as stated: 0.3 whenever neither the mood nor any mood listed as related
\* to it in the table is detected in the text.
C10_FloorWhenOwnRelatedUndetected ==
    (pc = "mood_returned" /\ m_mood \notin Detected
        /\ Related(m_mood) \cap Detected = {}) => m_score = R(3, 10)

\* C10: calculer_score_mood_match(text, mood, None) returns the floor 0.3
\* whenever the mood is not detected in the text and the mood is not listed in
\* the related-moods entry of any detected mood.
C10_FloorWhenNotRelatedToDetected ==
    (pc = "mood_returned" /\ m_mood \notin Detected
        /\ \A d \in Detected : m_mood \notin Related(d)) => m_score = R(3, 10)

C10_Witness ==
    /\ pc = "mood_returned"
    /\ m_mood = joyeux
    /\ Detected = {motivant}
    /\ m_score = R(3, 10)

-----------------------------------------------------------------------------
(* calculer_scores_elements as a call of its own.                           *)

MaxScoreLen == 6

\* the members of a set of indices, in increasing order
RECURSIVE Croissant(_)
Croissant(S) ==
    IF S = {} THEN <<>>
    ELSE LET lo == CHOOSE x \in S : \A y \in S : x <= y
         IN  <<lo>> \o Croissant(S \ {lo})

Renverse(seq) == [i \in 1..Len(seq) |-> seq[Len(seq) + 1 - i]]

\* the catalogue, with an ambiance whose list of associated moods is empty and
\* a song that carries a list of associated moods
ScoreCatalogue ==
    Catalogue \o
    << [type |-> T_ambiance, id |-> <<"u">>,
        similarite_semantique |-> R(7, 10),
        data |-> [nom |-> <<"U">>, moods_associes |-> <<>>]],
       [type |-> T_chanson, id |-> <<"s", "8">>, genre |-> pop,
        similarite_semantique |-> R(1, 10),
        data |-> [nom |-> <<"g">>, artiste |-> <<"z">>,
                  moods_associes |-> <<triste, energique, festif>>]] >>

\* up to MaxScoreLen catalogue entries, in catalogue order or in the reverse
\* order
ScoreLists ==
    UNION {{Croissant(S), Renverse(Croissant(S))} :
              S \in {T \in SUBSET (1..Len(ScoreCatalogue)) :
                         Cardinality(T) <= MaxScoreLen}}

NiveauScoreChoices == {1, 3, 5}

InitScore ==
    /\ \E c \in ScoreLists : corpus = [i \in 1..Len(c) |-> ScoreCatalogue[c[i]]]
    /\ args = NoArgs
    /\ elements_scores = <<>>
    /\ recommandations = <<>>
    /\ pc = "score_call"
    /\ PureIdle
    /\ OthersIdle

ScorerCorpus ==
    /\ pc = "score_call"
    /\ \E p \in PrefsChoices, t \in TexteChoices, g \in GenresChoices,
          n \in NiveauScoreChoices :
          /\ args' = [called |-> TRUE, preferences_user |-> p, texte_user |-> t,
                      genres_preferes |-> g, niveau_ouverture |-> n]
          /\ elements_scores' = calculer_scores_elements(corpus, p, t, <<>>, g, n)
    /\ pc' = "score_returned"
    /\ UNCHANGED <<corpus, recommandations, m_texte, m_mood, m_score,
                   a_prefs, a_feat, a_score, others>>

NextScore == ScorerCorpus

SpecScore == InitScore /\ [][NextScore]_vars

-----------------------------------------------------------------------------
(* Preference match and audio match.                                        *)

\* C11: every item scored by calculer_scores_elements, with or without an
\* audio-feature payload and whether the user preferences are empty or not,
\* records a preferences_likert sub-score equal to its audio_features
\* sub-score.
C11_PreferenceEqualsAudio ==
    pc = "score_returned" =>
        \A i \in 1..Len(elements_scores) :
            elements_scores[i].scores.preferences_likert
                = elements_scores[i].scores.audio_features

\* an item with a feature payload, scored against non-empty preferences, whose
\* two sub-scores are not the neutral value, next to an item with no payload
C11_Witness ==
    /\ pc = "score_returned"
    /\ args.preferences_user # EmptyDict
    /\ \E i, j \in 1..Len(elements_scores) :
          /\ "caracteristiques_moyennes" \in DOMAIN elements_scores[i].data
          /\ elements_scores[i].scores.audio_features # Half
          /\ elements_scores[i].scores.preferences_likert # Half
          /\ "caracteristiques_moyennes" \notin DOMAIN elements_scores[j].data

-----------------------------------------------------------------------------
(* Scores under corpus subsetting.                                          *)

\* the ScoreVector calculer_scores_elements attaches to one item scored alone
ScoreSeul(element) ==
    calculer_scores_elements(<<element>>, args.preferences_user, args.texte_user,
                             <<>>, args.genres_preferes,
                             args.niveau_ouverture)[1].scores

\* the element of the corpus that became elements_scores[i]
Origine(i) ==
    CHOOSE c \in {corpus[j] : j \in 1..Len(corpus)} : c.id = elements_scores[i].id

\* C12: for fixed user inputs, the ScoreVector that calculer_scores_elements
\* attaches to an item scored together with other items is the one it attaches
\* to that item scored alone.
C12_StableUnderSubsetting ==
    pc = "score_returned" =>
        \A i \in 1..Len(elements_scores) :
            elements_scores[i].scores = ScoreSeul(Origine(i))

\* three items scored together, with three different global scores, one of
\* them boosted
C12_Witness ==
    /\ pc = "score_returned"
    /\ Len(elements_scores) = 3
    /\ elements_scores[1].scores.global # elements_scores[2].scores.global
    /\ elements_scores[2].scores.global # elements_scores[3].scores.global
    /\ \E i \in 1..3 : elements_scores[i].scores.genre_boost # Zero

-----------------------------------------------------------------------------
(* The list returned by calculer_scores_elements.                           *)

\* an element of elements_scores without its ScoreVector
SansScores(e) == [k \in DOMAIN e \ {"scores"} |-> e[k]]

\* the place in the input of the item that became elements_scores[i]
PlaceOrigine(i) ==
    CHOOSE j \in 1..Len(corpus) : corpus[j] = SansScores(elements_scores[i])

ScoreVectorKeys ==
    {"global", "similarite_semantique", "mood_match", "preferences_likert",
     "audio_features", "genre_boost"}

\* C22: calculer_scores_elements returns a permutation of its input items
\* (same number of items, each input item exactly once, each with a
\* ScoreVector) sorted by global descending, and items with equal global keep
\* their relative input order.
C22_SortedStablePermutation ==
    pc = "score_returned" =>
        /\ Len(elements_scores) = Len(corpus)
        /\ \A j \in 1..Len(corpus) :
              Cardinality({i \in 1..Len(elements_scores) :
                              SansScores(elements_scores[i]) = corpus[j]}) = 1
        /\ \A i \in 1..Len(elements_scores) :
              /\ "scores" \in DOMAIN elements_scores[i]
              /\ DOMAIN elements_scores[i].scores = ScoreVectorKeys
        /\ \A i, j \in 1..Len(elements_scores) :
              i < j =>
                  /\ RLe(elements_scores[j].scores.global,
                         elements_scores[i].scores.global)
                  /\ elements_scores[i].scores.global
                         = elements_scores[j].scores.global
                        => PlaceOrigine(i) < PlaceOrigine(j)

\* two items of equal global given in the reverse of the catalogue order come
\* back in the order they were given, in a list of four or more that the sort
\* had to reorder
C22_Witness ==
    /\ pc = "score_returned"
    /\ Len(elements_scores) >= 4
    /\ \E i, j \in 1..Len(elements_scores) :
          /\ i < j
          /\ elements_scores[i].scores.global = elements_scores[j].scores.global
          /\ elements_scores[i].id = <<"s", "3">>
          /\ elements_scores[j].id = <<"s", "1">>
          /\ PlaceOrigine(i) < PlaceOrigine(j)
    /\ PlaceOrigine(1) # 1
    /\ RLt(elements_scores[Len(elements_scores)].scores.global,
           elements_scores[1].scores.global)

-----------------------------------------------------------------------------
(* The mood sub-score of an item.                                           *)

\* the mood match of one mood under the inputs of the call
MatchDe(mood) == calculer_score_mood_match(args.texte_user, mood, <<>>)

\* v is the maximum of the mood matches of the moods of a list
EstMaximumDes(v, moods) ==
    /\ \E k \in 1..Len(moods) : v = MatchDe(moods[k])
    /\ \A k \in 1..Len(moods) : RLe(MatchDe(moods[k]), v)

\* what C28 asks of the items that carry a list of associated moods
MoodMatchAttendu(avec_liste_vide) ==
    pc = "score_returned" =>
        \A i \in 1..Len(elements_scores) :
            LET e == elements_scores[i]
            IN  /\ e.type = T_mood => e.scores.mood_match = MatchDe(e.id)
                /\ ( /\ e.type # T_mood
                     /\ "moods_associes" \in DOMAIN e.data
                     /\ (avec_liste_vide \/ e.data.moods_associes # <<>>) )
                       => EstMaximumDes(e.scores.mood_match, e.data.moods_associes)

\* C28 as stated: for an item that is not of kind mood and exposes a list of
\* associated moods, the recorded mood_match is the maximum of
\* calculer_score_mood_match over the associated moods; for an item of kind
\* mood it is the mood match of the item's id.
C28_AnyAssociatedList == MoodMatchAttendu(TRUE)

\* C28: for an item that is not of kind mood and exposes a non-empty list of
\* associated moods, the recorded mood_match is the maximum of
\* calculer_score_mood_match over the associated moods, and for an empty list
\* it is the neutral 0.5; for an item of kind mood it is the mood match of the
\* item's id.
C28_NonEmptyAssociatedList ==
    /\ MoodMatchAttendu(FALSE)
    /\ pc = "score_returned" =>
          \A i \in 1..Len(elements_scores) :
              LET e == elements_scores[i]
              IN  ( /\ e.type # T_mood
                    /\ "moods_associes" \in DOMAIN e.data
                    /\ e.data.moods_associes = <<>> )
                      => e.scores.mood_match = Half

\* an ambiance and a song whose best associated mood is not the first of the
\* list, a mood item scored on its id, and an ambiance with an empty list
C28_Witness ==
    /\ pc = "score_returned"
    /\ \E i, j, k, l \in 1..Len(elements_scores) :
          /\ elements_scores[i].type = T_ambiance
          /\ "moods_associes" \in DOMAIN elements_scores[i].data
          /\ Len(elements_scores[i].data.moods_associes) = 2
          /\ elements_scores[i].scores.mood_match = R(6, 10)
          /\ MatchDe(elements_scores[i].data.moods_associes[1]) = R(3, 10)
          /\ elements_scores[j].type = T_chanson
          /\ "moods_associes" \in DOMAIN elements_scores[j].data
          /\ elements_scores[j].scores.mood_match = One
          /\ MatchDe(elements_scores[j].data.moods_associes[1]) = R(3, 10)
          /\ elements_scores[k].type = T_mood
          /\ elements_scores[k].scores.mood_match = R(6, 10)
          /\ "moods_associes" \in DOMAIN elements_scores[l].data
          /\ elements_scores[l].data.moods_associes = <<>>
          /\ elements_scores[l].scores.mood_match = Half

-----------------------------------------------------------------------------
(* generer_recommandations as calls of their own: top_n = k, then k + 5.    *)

\* the catalogue, with a second mood item of the same id, one more song and
\* one more ambiance
RecoCatalogue ==
    Catalogue \o
    << [type |-> T_mood, id |-> joyeux,
        similarite_semantique |-> R(1, 5),
        data |-> [nom |-> joyeux]],
       [type |-> T_chanson, id |-> <<"s", "9">>, genre |-> pop,
        similarite_semantique |-> R(3, 10),
        data |-> [nom |-> <<"f">>, artiste |-> <<"y">>]],
       [type |-> T_ambiance, id |-> <<"w">>,
        similarite_semantique |-> R(2, 5),
        data |-> [nom |-> <<"W">>]] >>

MaxRecoLen == 9
MaxTopN == 3

\* the candidate lists: up to MaxRecoLen catalogue entries, in catalogue order
\* or in the reverse order
RecoLists ==
    UNION {{Croissant(S), Renverse(Croissant(S))} :
              S \in {T \in SUBSET (1..Len(RecoCatalogue)) :
                         Cardinality(T) <= MaxRecoLen}}

InitReco ==
    /\ \E c \in RecoLists, p \in PrefsChoices, g \in GenresChoices :
          /\ corpus = [i \in 1..Len(c) |-> RecoCatalogue[c[i]]]
          /\ elements_scores =
                 calculer_scores_elements(corpus, p, festif, <<>>, g, 1)
    /\ args = NoArgs
    /\ recommandations = <<>>
    /\ pc = "reco_call"
    /\ PureIdle
    /\ OthersIdle

\* generer_recommandations(elements_scores, top_n = k)
GenererTopK ==
    /\ pc = "reco_call"
    /\ \E k \in 0..MaxTopN :
          /\ args' = [called |-> TRUE, top_n |-> k]
          /\ recommandations' = generer_recommandations(elements_scores, k)
    /\ pc' = IF elements_scores = <<>> THEN "reco_failed" ELSE "reco_k"
    /\ UNCHANGED <<corpus, elements_scores, m_texte, m_mood, m_score,
                   a_prefs, a_feat, a_score, others>>

\* then generer_recommandations(elements_scores, top_n = k + 5); the bundle of
\* the first call is kept as args.premier
GenererTopKPlus5 ==
    /\ pc = "reco_k"
    /\ args' = [called |-> TRUE, top_n |-> args.top_n, premier |-> recommandations]
    /\ recommandations' = generer_recommandations(elements_scores, args.top_n + 5)
    /\ pc' = "reco_k5"
    /\ UNCHANGED <<corpus, elements_scores, m_texte, m_mood, m_score,
                   a_prefs, a_feat, a_score, others>>

NextReco == GenererTopK \/ GenererTopKPlus5

SpecReco == InitReco /\ [][NextReco]_vars

-----------------------------------------------------------------------------
(* Properties of generer_recommandations.                                   *)

\* the deduplication keys of a list
Cles(elements) == {UniqueKey(elements[i]) : i \in 1..Len(elements)}

\* C13: given a scored list sorted by global descending, top_recommandations
\* holds no two items with the same deduplication key, and each item in it has
\* the highest global score among the items of the list that share its key.
C13_DedupKeepsHighest ==
    pc \in {"reco_k", "reco_k5"} =>
        LET top == recommandations.top_recommandations
        IN  /\ \A i, j \in 1..Len(top) :
                  i # j => UniqueKey(top[i]) # UniqueKey(top[j])
            /\ \A i \in 1..Len(top) : \A j \in 1..Len(elements_scores) :
                  UniqueKey(elements_scores[j]) = UniqueKey(top[i])
                      => RLe(elements_scores[j].scores.global, top[i].scores.global)

\* two songs with the same (title, artist), different ids and different
\* scores: only the higher-scoring one is returned
C13_Witness ==
    /\ pc = "reco_k"
    /\ \E i, j \in 1..Len(elements_scores) :
          /\ i < j
          /\ elements_scores[i].type = T_chanson
          /\ elements_scores[j].type = T_chanson
          /\ UniqueKey(elements_scores[i]) = UniqueKey(elements_scores[j])
          /\ elements_scores[i].id # elements_scores[j].id
          /\ RLt(elements_scores[j].scores.global, elements_scores[i].scores.global)
          /\ j <= args.top_n
          /\ \E t \in 1..Len(recommandations.top_recommandations) :
                recommandations.top_recommandations[t] = elements_scores[i]
          /\ \A t \in 1..Len(recommandations.top_recommandations) :
                recommandations.top_recommandations[t] # elements_scores[j]

\* what C14 asks of the two calls, top_n = k and top_n = k + 5
TroncatureStable ==
    /\ pc \in {"reco_k", "reco_failed"} =>
          /\ "top_recommandations" \in DOMAIN recommandations
          /\ Len(recommandations.top_recommandations)
                 = Minimum(args.top_n, Cardinality(Cles(elements_scores)))
    /\ pc = "reco_k5" =>
          /\ "top_recommandations" \in DOMAIN recommandations
          /\ Take(recommandations.top_recommandations, args.top_n)
                 = args.premier.top_recommandations
          /\ Len(args.premier.top_recommandations)
                 = Minimum(args.top_n, Cardinality(Cles(elements_scores)))

\* C14 as stated: for any scored list and any k >= 0, the first k items of the
\* top_n = k + 5 result are the top_n = k result, and top_n = k returns exactly
\* min(k, number of distinct deduplication keys) items.
C14_AnyScoredList == TroncatureStable

\* C14: for any non-empty scored list and any k >= 0, the first k items of the
\* top_n = k + 5 result are the top_n = k result, and top_n = k returns exactly
\* min(k, number of distinct deduplication keys) items.
C14_NonEmptyScoredList == elements_scores # <<>> => TroncatureStable

\* a list with a duplicate among its first k items and more than k + 5
\* distinct keys: the second call returns k + 5 items, the first one k
C14_Witness ==
    /\ pc = "reco_k5"
    /\ args.top_n = 2
    /\ Len(elements_scores) > args.top_n + 5
    /\ UniqueKey(elements_scores[1]) = UniqueKey(elements_scores[2])
    /\ Cardinality(Cles(elements_scores)) > args.top_n + 5
    /\ Len(recommandations.top_recommandations) = args.top_n + 5
    /\ Len(args.premier.top_recommandations) = args.top_n

\* C21: generer_recommandations called with an empty scored list fails with an
\* error; it never returns a bundle with empty or undefined statistics.
C21_EmptyListFailsLoudly ==
    pc \in {"reco_k", "reco_failed", "reco_k5"} =>
        /\ elements_scores = <<>> =>
              /\ "erreur" \in DOMAIN recommandations
              /\ DOMAIN recommandations = {"erreur"}
        /\ "statistiques" \in DOMAIN recommandations =>
              /\ elements_scores # <<>>
              /\ recommandations.statistiques.nombre_elements_evalues >= 1
              /\ DOMAIN recommandations.statistiques
                     = {"score_moyen", "score_max", "score_min",
                        "nombre_elements_evalues"}
              /\ recommandations.statistiques.score_moyen # NoneVal
              /\ recommandations.statistiques.score_max # NoneVal
              /\ recommandations.statistiques.score_min # NoneVal

\* the call was made on the empty list and an error came back
C21_Witness ==
    /\ pc = "reco_failed"
    /\ args.called
    /\ elements_scores = <<>>
    /\ recommandations = [erreur |-> "ValueError"]

-----------------------------------------------------------------------------
(* The per-kind lists and the weak spots of the bundle.                     *)

\* the deduplicated items: the items of the scored list whose key no earlier
\* item of the list has, in the order of the list
PremieresOccurrences ==
    LET premiers == {i \in 1..Len(elements_scores) :
                        \A j \in 1..(i - 1) :
                            UniqueKey(elements_scores[j])
                                # UniqueKey(elements_scores[i])}
        ordre == Croissant(premiers)
    IN  [k \in 1..Len(ordre) |-> elements_scores[ordre[k]]]

\* the items of one kind among a list, in the order of the list
DuType(elements, t) == SelectSeq(elements, LAMBDA e : e.type = t)

\* C25: in the bundle returned by generer_recommandations, top_par_type has a
\* key for exactly the kinds that occur among the deduplicated items, and the
\* value for each kind is the first min(3, count) deduplicated items of that
\* kind in the same relative order as in the global ranking.
C25_TopParTypeFirstThree ==
    pc \in {"reco_k", "reco_k5"} =>
        LET uniques == PremieresOccurrences
            tpt == recommandations.top_par_type
        IN  /\ DOMAIN tpt = {uniques[i].type : i \in 1..Len(uniques)}
            /\ \A t \in DOMAIN tpt :
                  /\ Len(tpt[t]) = Minimum(3, Len(DuType(uniques, t)))
                  /\ \A i \in 1..Len(tpt[t]) : tpt[t][i] = DuType(uniques, t)[i]

\* a list with four or more distinct songs, one kind with fewer than three
\* items, and a duplicate song that stands among the first three songs of the
\* list before deduplication
C25_Witness ==
    /\ pc = "reco_k"
    /\ Len(DuType(PremieresOccurrences, T_chanson)) >= 4
    /\ Len(recommandations.top_par_type[T_chanson]) = 3
    /\ T_ambiance \in DOMAIN recommandations.top_par_type
    /\ Len(recommandations.top_par_type[T_ambiance]) = 2
    /\ T_mood \in DOMAIN recommandations.top_par_type
    /\ Len(recommandations.top_par_type[T_mood]) = 1
    /\ Len(DuType(elements_scores, T_mood)) = 2
    /\ \E i \in 1..3 :
          DuType(elements_scores, T_chanson)[i]
              # recommandations.top_par_type[T_chanson][i]

\* C26: in the bundle returned by generer_recommandations, points_faibles holds
\* the min(5, N) lowest-global items of the full non-deduplicated scored list
\* of N items, in ascending order of global, so duplicates removed from
\* top_recommandations can still appear there.
C26_PointsFaiblesLowestFive ==
    pc \in {"reco_k", "reco_k5"} =>
        LET pf == recommandations.points_faibles
            dans_pf == {pf[i] : i \in 1..Len(pf)}
        IN  /\ Len(pf) = Minimum(5, Len(elements_scores))
            /\ Cardinality(dans_pf) = Len(pf)
            /\ \A i \in 1..Len(pf) :
                  \E j \in 1..Len(elements_scores) : pf[i] = elements_scores[j]
            /\ \A i, j \in 1..Len(pf) :
                  i < j => RLe(pf[i].scores.global, pf[j].scores.global)
            /\ \A j \in 1..Len(elements_scores) :
                  elements_scores[j] \notin dans_pf =>
                      \A i \in 1..Len(pf) :
                          RLe(pf[i].scores.global,
                              elements_scores[j].scores.global)

\* a list of more than five items where a duplicate that deduplication removed
\* is one of the five weak spots, and the weak spots have different scores
C26_Witness ==
    /\ pc = "reco_k"
    /\ Len(elements_scores) > 5
    /\ Len(recommandations.points_faibles) = 5
    /\ RLt(recommandations.points_faibles[1].scores.global,
           recommandations.points_faibles[5].scores.global)
    /\ \E i \in 1..5 :
          \A j \in 1..Len(PremieresOccurrences) :
              PremieresOccurrences[j] # recommandations.points_faibles[i]

-----------------------------------------------------------------------------
(* The statistics in binary64, as float(np.mean(...)), float(np.max(...))   *)
(* and float(np.min(...)) compute them.                                     *)
(*                                                                          *)
(* A positive binary64 value is [bits, e]: a mantissa of MantisseBits bits, *)
(* most significant first with bits[1] = 1, worth bits * 2^e; 0.0 is the    *)
(* record with no bits.  A global score r = [n, d] of a scored list stands  *)
(* for the binary64 value nearest to n / d, the value the decimal literal   *)
(* has in the program.  Every operation rounds to nearest, ties to even.    *)

MantisseBits == 53

ZeroFlottant == [bits |-> <<>>, e |-> 0]

Zeros(k) == [i \in 1..k |-> 0]

\* a + b + carry of two bit strings of the same length; bit i of the sum takes
\* the carry that the bits after it generate and propagate
AddBits(a, b, carry) ==
    LET k == Len(a)
        Retenue(i) ==
            \/ \E j \in (i + 1)..k :
                  /\ a[j] + b[j] = 2
                  /\ \A l \in (i + 1)..(j - 1) : a[l] + b[l] = 1
            \/ carry = 1 /\ \A l \in (i + 1)..k : a[l] + b[l] = 1
        somme == [i \in 1..k |->
                     (a[i] + b[i] + (IF Retenue(i) THEN 1 ELSE 0)) % 2]
    IN  IF Retenue(0) THEN <<1>> \o somme ELSE somme

\* a - 1 of a bit string that is not all zeros
DecBits(a) ==
    LET j == CHOOSE i \in 1..Len(a) :
                 a[i] = 1 /\ \A l \in (i + 1)..Len(a) : a[l] = 0
    IN  [i \in 1..Len(a) |-> IF i < j THEN a[i] ELSE IF i = j THEN 0 ELSE 1]

SansZerosDeTete(a) ==
    IF \A i \in 1..Len(a) : a[i] = 0 THEN <<>>
    ELSE LET j == CHOOSE i \in 1..Len(a) :
                      a[i] = 1 /\ \A l \in 1..(i - 1) : a[l] = 0
         IN  SubSeq(a, j, Len(a))

\* the 16 bits of an integer below 2^16, and the integer of 16 bits
Bits16(v) == [j \in 1..16 |-> (v \div 2^(16 - j)) % 2]

RECURSIVE Nat16(_)
Nat16(bits) ==
    IF bits = <<>> THEN 0
    ELSE 2 * Nat16(SubSeq(bits, 1, Len(bits) - 1)) + bits[Len(bits)]

\* the binary64 value nearest to bits * 2^e (+ something below the last bit
\* when reste_non_nul), for a bit string that starts with 1
Arrondir(bits, e, reste_non_nul) ==
    IF Len(bits) <= MantisseBits
    THEN [bits |-> bits \o Zeros(MantisseBits - Len(bits)),
          e    |-> e - (MantisseBits - Len(bits))]
    ELSE LET garde   == SubSeq(bits, 1, MantisseBits)
             perdus  == SubSeq(bits, MantisseBits + 1, Len(bits))
             e2      == e + Len(perdus)
             collant == reste_non_nul \/ \E i \in 2..Len(perdus) : perdus[i] = 1
             monte   == perdus[1] = 1 /\ (collant \/ garde[MantisseBits] = 1)
             plus_un == AddBits(garde, Zeros(MantisseBits), 1)
         IN  IF ~monte THEN [bits |-> garde, e |-> e2]
             ELSE IF Len(plus_un) > MantisseBits
                  THEN [bits |-> SubSeq(plus_un, 1, MantisseBits), e |-> e2 + 1]
                  ELSE [bits |-> plus_un, e |-> e2]

\* long division, 16 bits of quotient a step: the dividend is rem followed by
\* the 16-bit groups still to come
RECURSIVE DivGroupes(_, _, _, _)
DivGroupes(groupes, n, rem, acc) ==
    IF groupes = <<>> THEN [q |-> acc, r |-> rem]
    ELSE LET v == rem * 65536 + Head(groupes)
         IN  DivGroupes(Tail(groupes), n, v % n, acc \o Bits16(v \div n))

\* the binary64 value of a score 0 < n / d < 2: the unit bit and 80 bits after
\* the point, rounded
Flottant(r) ==
    IF r.n = 0 THEN ZeroFlottant
    ELSE LET qr == DivGroupes(<<0, 0, 0, 0, 0>>, r.d, r.n % r.d, <<>>)
         IN  Arrondir(SansZerosDeTete(<<r.n \div r.d>> \o qr.q), -80, qr.r # 0)

\* x + y
float_add(x, y) ==
    IF x.bits = <<>> THEN y
    ELSE IF y.bits = <<>> THEN x
    ELSE LET hi == IF x.e >= y.e THEN x ELSE y
             lo == IF x.e >= y.e THEN y ELSE x
             k  == hi.e - lo.e
         IN  Arrondir(AddBits(hi.bits \o Zeros(k), Zeros(k) \o lo.bits, 0),
                      lo.e, FALSE)

\* x / n for an integer 1 <= n <= 16: the mantissa followed by 11 zero bits,
\* divided in four groups of 16 bits
float_div(x, n) ==
    IF x.bits = <<>> THEN x
    ELSE LET dividende == x.bits \o Zeros(11)
             groupes == [g \in 1..4 |->
                            Nat16(SubSeq(dividende, 16 * g - 15, 16 * g))]
             qr == DivGroupes(groupes, n, 0, <<>>)
         IN  Arrondir(SansZerosDeTete(qr.q), x.e - 11, qr.r # 0)

\* x <= y
float_le(x, y) ==
    IF x.bits = <<>> THEN TRUE
    ELSE IF y.bits = <<>> THEN FALSE
    ELSE IF x.e # y.e THEN x.e < y.e
    ELSE \/ x.bits = y.bits
         \/ \E i \in 1..MantisseBits :
               /\ x.bits[i] < y.bits[i]
               /\ \A j \in 1..(i - 1) : x.bits[j] = y.bits[j]

\* the next binary64 value above a positive one, and the next one below
Suivant(x) ==
    LET plus_un == AddBits(x.bits, Zeros(MantisseBits), 1)
    IN  IF Len(plus_un) > MantisseBits
        THEN [bits |-> SubSeq(plus_un, 1, MantisseBits), e |-> x.e + 1]
        ELSE [bits |-> plus_un, e |-> x.e]

Precedent(x) ==
    IF x.bits = <<1>> \o Zeros(MantisseBits - 1)
    THEN [bits |-> [i \in 1..MantisseBits |-> 1], e |-> x.e - 1]
    ELSE [bits |-> DecBits(x.bits), e |-> x.e]

\* np.add.reduce of fewer than 8 values: the plain loop from 0.0, left to right
RECURSIVE np_sum(_, _)
np_sum(res, valeurs) ==
    IF valeurs = <<>> THEN res
    ELSE np_sum(float_add(res, Head(valeurs)), Tail(valeurs))

\* np.mean: the sum divided by the number of values
np_mean(valeurs) == float_div(np_sum(ZeroFlottant, valeurs), Len(valeurs))

RECURSIVE np_max(_)
np_max(valeurs) ==
    IF Len(valeurs) = 1 THEN valeurs[1]
    ELSE LET m == np_max(Tail(valeurs))
         IN  IF float_le(m, valeurs[1]) THEN valeurs[1] ELSE m

RECURSIVE np_min(_)
np_min(valeurs) ==
    IF Len(valeurs) = 1 THEN valeurs[1]
    ELSE LET m == np_min(Tail(valeurs))
         IN  IF float_le(valeurs[1], m) THEN valeurs[1] ELSE m

\* scores_globaux
ScoresGlobaux(elements) ==
    [i \in 1..Len(elements) |-> Flottant(elements[i].scores.global)]

\* statistics taken over the deduplicated items
StatistiquesFlottantesUniques(elements) ==
    LET scores_globaux == ScoresGlobaux(Dedupliquer(elements, {}, <<>>))
    IN  IF elements = <<>> THEN [erreur |-> "ValueError"]
        ELSE [score_moyen |-> np_mean(scores_globaux),
              score_max   |-> np_max(scores_globaux),
              score_min   |-> np_min(scores_globaux),
              nombre_elements_evalues |-> Len(scores_globaux)]

\* the 'statistiques' entry of the bundle in binary64
StatistiquesFlottantes(elements) ==
    LET scores_globaux == ScoresGlobaux(elements)
    IN  IF elements = <<>> THEN [erreur |-> "ValueError"]
        ELSE [score_moyen |-> np_mean(scores_globaux),
              score_max   |-> np_max(scores_globaux),
              score_min   |-> np_min(scores_globaux),
              nombre_elements_evalues |-> Len(elements)]

-----------------------------------------------------------------------------
(* generer_recommandations on a scored list, statistics in binary64.        *)

\* one scored item; generer_recommandations reads its type, id, data and
\* scores.global only
Note(type, id, nom, artiste, global) ==
    [type |-> type, id |-> id, data |-> [nom |-> nom, artiste |-> artiste],
     scores |-> [global |-> global]]

\* scored items by global descending; the second and third are the same song
\* under two ids
StatCatalogue ==
    << Note(T_chanson, <<"s", "1">>, <<"a">>, <<"x">>, One),
       Note(T_chanson, <<"s", "2">>, <<"b">>, <<"x">>, R(7, 10)),
       Note(T_chanson, <<"s", "6">>, <<"B">>, <<"X">>, R(7, 10)),
       Note(T_ambiance, <<"v">>, <<"V">>, EmptyStr, R(7, 10)),
       Note(T_mood, joyeux, joyeux, EmptyStr, R(1, 10)),
       Note(T_chanson, <<"s", "3">>, <<"c">>, <<"x">>, R(1, 10)),
       Note(T_ambiance, <<"w">>, <<"W">>, EmptyStr, R(1, 10)) >>

\* np.add.reduce is the plain left-to-right loop below 8 values
MaxStatLen == 5

StatLists ==
    {Croissant(S) : S \in {T \in SUBSET (1..Len(StatCatalogue)) :
                               Cardinality(T) <= MaxStatLen}}

InitStats ==
    /\ \E c \in StatLists :
          elements_scores = [i \in 1..Len(c) |-> StatCatalogue[c[i]]]
    /\ corpus = <<>>
    /\ args = NoArgs
    /\ recommandations = <<>>
    /\ pc = "stats_call"
    /\ PureIdle
    /\ OthersIdle

\* generer_recommandations(elements_scores, top_n), the 'statistiques' entry
\* as the binary64 operations give it
GenererStatistiques ==
    /\ pc = "stats_call"
    /\ \E k \in TopNChoices :
          LET bundle == generer_recommandations(elements_scores, k)
          IN  /\ args' = [called |-> TRUE, top_n |-> k]
              /\ recommandations' =
                     IF "erreur" \in DOMAIN bundle THEN bundle
                     ELSE [bundle EXCEPT
                              !.statistiques = StatistiquesFlottantes(elements_scores)]
    /\ pc' = "stats_returned"
    /\ UNCHANGED <<corpus, elements_scores, m_texte, m_mood, m_score,
                   a_prefs, a_feat, a_score, others>>

NextStats == GenererStatistiques

SpecStats == InitStats /\ [][NextStats]_vars

\* k binary64 values above x, k binary64 values below x
RECURSIVE Monter(_, _)
Monter(x, k) == IF k = 0 THEN x ELSE Monter(Suivant(x), k - 1)

RECURSIVE Descendre(_, _)
Descendre(x, k) == IF k = 0 THEN x ELSE Descendre(Precedent(x), k - 1)

\* x is between lo and hi, k units in the last place allowed on either side
EntreA(x, lo, hi, k) ==
    /\ float_le(Descendre(lo, k), x)
    /\ float_le(x, Monter(hi, k))

\* the maximum, the minimum and the count are those of the full list, and the
\* mean is within a rounding of the mean of the full list
StatistiquesDeLaListe ==
    LET st == recommandations.statistiques
        sg == ScoresGlobaux(elements_scores)
        N  == Len(elements_scores)
        moyenne_exacte ==
            Flottant(RDiv(SumGlobal(elements_scores), R(N, 1)))
    IN  /\ st.nombre_elements_evalues = N
        /\ \E i \in 1..N : st.score_max = sg[i]
        /\ \A i \in 1..N : float_le(sg[i], st.score_max)
        /\ \E i \in 1..N : st.score_min = sg[i]
        /\ \A i \in 1..N : float_le(st.score_min, sg[i])
        /\ EntreA(st.score_moyen, moyenne_exacte, moyenne_exacte, N + 1)

\* C27 as stated: for a non-empty scored list, the statistics are the mean,
\* maximum and minimum of global over the full non-deduplicated list and the
\* count equals the length of that list (not the number of deduplicated
\* items), so score_min <= score_moyen <= score_max always holds.
C27_MeanBetweenMinAndMax ==
    (pc = "stats_returned" /\ elements_scores # <<>>) =>
        /\ StatistiquesDeLaListe
        /\ float_le(recommandations.statistiques.score_min,
                    recommandations.statistiques.score_moyen)
        /\ float_le(recommandations.statistiques.score_moyen,
                    recommandations.statistiques.score_max)

\* C27: for a non-empty scored list, the statistics are the binary64 mean,
\* maximum and minimum of global over the full non-deduplicated list and the
\* count equals the length of that list (not the number of deduplicated
\* items); score_min <= score_moyen <= score_max holds up to the rounding of
\* the mean, which stays within N units in the last place of that interval
\* for a list of N items.
C27_MeanBetweenMinAndMaxRounded ==
    (pc = "stats_returned" /\ elements_scores # <<>>) =>
        /\ StatistiquesDeLaListe
        /\ EntreA(recommandations.statistiques.score_moyen,
                  recommandations.statistiques.score_min,
                  recommandations.statistiques.score_max,
                  Len(elements_scores))

\* three items of global 0.7, two of them the same song: the count is 3 while
\* two items are left after deduplication, and the mean 0.6999999999999998 is
\* below the minimum 0.7
C27_Witness ==
    /\ pc = "stats_returned"
    /\ Len(elements_scores) = 3
    /\ \A i \in 1..3 : elements_scores[i].scores.global = R(7, 10)
    /\ Len(recommandations.top_recommandations) = 2
    /\ recommandations.statistiques.nombre_elements_evalues = 3
    /\ recommandations.statistiques.score_min = Flottant(R(7, 10))
    /\ recommandations.statistiques.score_max = Flottant(R(7, 10))
    /\ recommandations.statistiques.score_moyen = Precedent(Flottant(R(7, 10)))

-----------------------------------------------------------------------------
(* generer_recommandations on scored lists whose titles, artists and ids    *)
(* hold the separator of the deduplication key, and whose scores tie.       *)

Soulignement == <<"_">>

\* scored items by global descending: five items of equal global (a song, the
\* same song in capitals under another id, a song of another title and
\* artist, a mood and an ambiance), a song titled "mood" whose artist is the
\* id of the mood item, and four more items
RankCatalogue ==
    << Note(T_chanson, <<"s", "1">>, <<"a">> \o Soulignement \o <<"b">>, <<"c">>, R(9, 10)),
       Note(T_chanson, <<"s", "2">>, <<"A">> \o Soulignement \o <<"B">>, <<"C">>, R(9, 10)),
       Note(T_chanson, <<"s", "3">>, <<"a">>, <<"b">> \o Soulignement \o <<"c">>, R(9, 10)),
       Note(T_mood, joyeux, joyeux, EmptyStr, R(9, 10)),
       Note(T_ambiance, <<"v">>, <<"V">>, EmptyStr, R(9, 10)),
       Note(T_chanson, <<"s", "4">>, T_mood, joyeux, R(6, 10)),
       Note(T_ambiance, <<"w">>, <<"W">>, EmptyStr, R(4, 10)),
       Note(T_chanson, <<"s", "5">>, <<"d">>, <<"x">>, R(3, 10)),
       Note(T_mood, triste, triste, EmptyStr, R(2, 10)),
       Note(T_chanson, <<"s", "6">>, <<"e">>, <<"x">>, R(1, 10)) >>

MaxRankLen == 8

RankLists ==
    {Croissant(S) : S \in {T \in SUBSET (1..Len(RankCatalogue)) :
                               Cardinality(T) <= MaxRankLen}}

InitRank ==
    /\ \E c \in RankLists :
          elements_scores = [i \in 1..Len(c) |-> RankCatalogue[c[i]]]
    /\ corpus = <<>>
    /\ args = NoArgs
    /\ recommandations = <<>>
    /\ pc = "rank_call"
    /\ PureIdle
    /\ OthersIdle

\* generer_recommandations(elements_scores, top_n) for a small top_n or for
\* one that takes every item
GenererClassement ==
    /\ pc = "rank_call"
    /\ \E k \in (1..MaxTopN) \cup {Len(elements_scores)} :
          /\ args' = [called |-> TRUE, top_n |-> k]
          /\ recommandations' = generer_recommandations(elements_scores, k)
    /\ pc' = "rank_returned"
    /\ UNCHANGED <<corpus, elements_scores, m_texte, m_mood, m_score,
                   a_prefs, a_feat, a_score, others>>

NextRank == GenererClassement

SpecRank == InitRank /\ [][NextRank]_vars

\* the two ways the claim lets two items be duplicates
MemeElement(a, b) ==
    \/ /\ a.type = T_chanson
       /\ b.type = T_chanson
       /\ Lower(Get(a.data, "nom", EmptyStr)) = Lower(Get(b.data, "nom", EmptyStr))
       /\ Lower(Get(a.data, "artiste", EmptyStr))
              = Lower(Get(b.data, "artiste", EmptyStr))
    \/ /\ a.type # T_chanson
       /\ b.type = a.type
       /\ b.id = a.id

\* the items a sequence holds
Membres(elements) == {elements[i] : i \in 1..Len(elements)}

\* C29: generer_recommandations treats two items as duplicates only if they
\* are both songs with the same case-insensitive title and the same
\* case-insensitive artist, or both non-song items of the same kind with the
\* same id; an item is never removed because of an item of a different kind or
\* a song with a different title or artist.  With top_n at least the length of
\* the list, every item missing from top_recommandations has such a duplicate
\* before it in the list.
C29_OnlyTrueDuplicatesRemoved ==
    ( /\ pc = "rank_returned"
      /\ elements_scores # <<>>
      /\ args.top_n >= Len(elements_scores) ) =>
        \A i \in 1..Len(elements_scores) :
            elements_scores[i] \notin Membres(recommandations.top_recommandations)
                => \E j \in 1..(i - 1) :
                       MemeElement(elements_scores[j], elements_scores[i])

\* C30: in the bundle returned by generer_recommandations for a scored list
\* with more than top_n + 5 items, no item appears in both top_recommandations
\* and points_faibles, and every item of top_recommandations has a global
\* score at least as high as every item of points_faibles.
C30_TopAndWeakSpotsDisjoint ==
    ( /\ pc = "rank_returned"
      /\ Len(elements_scores) > args.top_n + 5 ) =>
        LET top == recommandations.top_recommandations
            pf  == recommandations.points_faibles
        IN  /\ Membres(top) \cap Membres(pf) = {}
            /\ \A i \in 1..Len(top) : \A j \in 1..Len(pf) :
                  RLe(pf[j].scores.global, top[i].scores.global)

-----------------------------------------------------------------------------
(* services/nlp_service.py: MoteurNLP, the embedding index and its cache.   *)
(*                                                                          *)
(*  - index.referentiel_embeddings and index.referentiel_texts are NoneVal  *)
(*    or Some(value).  An embedding is a pair of integers whose Euclidean   *)
(*    norm is an integer, so that the cosine is an exact rational.          *)
(*  - cache is the file embeddings_cache.pkl: missing, unreadable by        *)
(*    pickle, the pickle of a list, or the pickle of a dict.                *)
(*  - nlp_res is the outcome of the last call, pc its name.  The field      *)
(*    nlp_res.construit tells whether a preparer_referentiel has completed  *)
(*    or a charger_cache has returned True so far.                          *)

T1 == <<"t", "1">>
T2 == <<"t", "2">>
T3 == <<"t", "3">>
T4 == <<"t", "4">>
T5 == <<"t", "5">>
T6 == <<"t", "6">>
Q1 == <<"q", "1">>
Q2 == <<"q", "2">>

\* SentenceTransformer.encode on one text: deterministic
Embedding(text) ==
    CASE text = T1 -> <<3, 4>>
      [] text = T2 -> <<4, 3>>
      [] text = T3 -> <<-3, -4>>
      [] text = T4 -> <<0, 5>>
      [] text = T5 -> <<3, -4>>
      [] text = T6 -> <<4, 3>>
      [] text = Q1 -> <<3, 4>>
      [] text = Q2 -> <<5, 0>>
      [] OTHER     -> IF Len(text) % 2 = 0 THEN <<4, -3>> ELSE <<-4, 3>>

\* MoteurNLP.encoder_textes
encoder_textes(textes) ==
    [i \in 1..Len(textes) |-> Embedding(textes[i])]

Dot(u, v) == u[1] * v[1] + u[2] * v[2]

Norme(u) == CHOOSE n \in 0..(Abs(u[1]) + Abs(u[2])) : n * n = Dot(u, u)

\* MoteurNLP.calculer_similarite_cosinus: one score per row of the matrix
calculer_similarite_cosinus(embedding_requete, embeddings_referentiel) ==
    [i \in 1..Len(embeddings_referentiel) |->
        R(Dot(embedding_requete, embeddings_referentiel[i]),
          Norme(embedding_requete) * Norme(embeddings_referentiel[i]))]

\* a corpus item as get_all_semantic_texts gives it: the catalogue entry with
\* its text and without a similarity
RefItem(i, text) ==
    [k \in (DOMAIN Catalogue[i] \ {"similarite_semantique"}) \cup {"text"} |->
        IF k = "text" THEN text ELSE Catalogue[i][k]]

CorpusA == <<RefItem(1, T1), RefItem(2, T2), RefItem(6, T3)>>
CorpusB == <<RefItem(7, T4), RefItem(4, T1)>>
CorpusC == <<RefItem(1, T1), RefItem(3, T5), RefItem(2, T2), RefItem(6, T3),
             RefItem(5, T6)>>

Corpora == {CorpusA, CorpusB, CorpusC}

\* the texts of a corpus: [item['text'] for item in textes_referentiel]
TextesBruts(textes_referentiel) ==
    [i \in 1..Len(textes_referentiel) |-> textes_referentiel[i].text]

\* the value _sauvegarder_cache pickles for a corpus
CacheDe(textes_referentiel) ==
    [etat |-> "pickle_dict",
     value |-> [embeddings |-> encoder_textes(TextesBruts(textes_referentiel)),
                texts |-> textes_referentiel]]

\* what the cache file can hold: nothing, bytes pickle cannot read, the pickle
\* of a list, of a dict lacking entries, or of a saved index
CacheFiles ==
    {[etat |-> "missing"],
     [etat |-> "corrupt"],
     [etat |-> "pickle_list"],
     [etat |-> "pickle_dict", value |-> EmptyDict],
     [etat |-> "pickle_dict", value |-> [texts |-> CorpusA]],
     [etat |-> "pickle_dict",
      value |-> [embeddings |-> encoder_textes(TextesBruts(CorpusA))]]}
    \cup {CacheDe(c) : c \in Corpora}

\* entries [cle, val] sorted by cle, descending, stable: list.sort(reverse=True)
RECURSIVE InsererParCle(_, _)
InsererParCle(sorted, e) ==
    IF sorted = <<>> THEN <<e>>
    ELSE IF RLe(e.cle, Head(sorted).cle)
         THEN <<Head(sorted)>> \o InsererParCle(Tail(sorted), e)
         ELSE <<e>> \o sorted

RECURSIVE TrierParCle(_, _)
TrierParCle(sorted, rest) ==
    IF rest = <<>> THEN sorted
    ELSE TrierParCle(InsererParCle(sorted, Head(rest)), Tail(rest))

\* the index passes the test "referentiel_embeddings is None"
NonPret(idx) == idx.referentiel_embeddings = NoneVal

\* the outcome of the loop "for i, score in enumerate(similarities)" reading
\* self.referentiel_texts[i]: None is not subscriptable, a short list has no
\* item i
ErreurDeLecture(idx, similarities) ==
    IF idx.referentiel_texts = NoneVal THEN "TypeError"
    ELSE IF Len(similarities) > Len(idx.referentiel_texts.v) THEN "IndexError"
    ELSE "aucune"

\* similarities of the query to the rows of the matrix
Similarites(idx, requete) ==
    calculer_similarite_cosinus(encoder_textes(<<requete>>)[1],
                                idx.referentiel_embeddings.v)

\* a lookup that cuts the sorted list to top_k before it applies the filter
rechercher_similaires_coupe_avant(idx, requete, top_k, filtre_type) ==
    IF NonPret(idx) THEN [erreur |-> "NotReady"]
    ELSE LET similarities == Similarites(idx, requete)
             lecture == ErreurDeLecture(idx, similarities)
         IN  IF lecture # "aucune" THEN [erreur |-> lecture]
             ELSE LET paires ==
                          [i \in 1..Len(similarities) |->
                              [val |-> idx.referentiel_texts.v[i],
                               cle |-> similarities[i]]]
                      triees == Take(TrierParCle(<<>>, paires), top_k)
                      gardees ==
                          SelectSeq(triees,
                                    LAMBDA x : \/ filtre_type = NoneVal
                                               \/ Some(x.val.type) = filtre_type)
                  IN  [resultats |->
                          [i \in 1..Len(gardees) |->
                              <<gardees[i].val, gardees[i].cle>>]]

\* MoteurNLP.rechercher_similaires; filtre_type is NoneVal or a type
rechercher_similaires(idx, requete, top_k, filtre_type) ==
    IF NonPret(idx) THEN [erreur |-> "NotReady"]
    ELSE LET similarities == Similarites(idx, requete)
             lecture == ErreurDeLecture(idx, similarities)
         IN  IF lecture # "aucune" THEN [erreur |-> lecture]
             ELSE LET paires ==
                          [i \in 1..Len(similarities) |->
                              [val |-> idx.referentiel_texts.v[i],
                               cle |-> similarities[i]]]
                      gardees ==
                          SelectSeq(paires,
                                    LAMBDA x : \/ filtre_type = NoneVal
                                               \/ Some(x.val.type) = filtre_type)
                      triees == TrierParCle(<<>>, gardees)
                  IN  [resultats |->
                          Take([i \in 1..Len(triees) |->
                                   <<triees[i].val, triees[i].cle>>], top_k)]

\* MoteurNLP.rechercher_par_type: one rechercher_similaires per requested
\* type, the first error ends the call
rechercher_par_type(idx, requete, types, top_k_par_type) ==
    IF types = <<>> THEN [resultats |-> EmptyDict]
    ELSE LET premier ==
                 rechercher_similaires(idx, requete, top_k_par_type, Some(types[1]))
         IN  IF "erreur" \in DOMAIN premier THEN premier
             ELSE [resultats |->
                      [t \in {types[i] : i \in 1..Len(types)} |->
                          rechercher_similaires(idx, requete, top_k_par_type,
                                                Some(t)).resultats]]

\* element['similarite_semantique'] = float(score) on the stored element itself
AnnoterSansCopie(element, score) ==
    LET annote == [k \in DOMAIN element \cup {"similarite_semantique"} |->
                      IF k = "similarite_semantique" THEN score ELSE element[k]]
    IN  [stocke |-> annote, resultat |-> annote]

\* element = self.referentiel_texts[i].copy();
\* element['similarite_semantique'] = float(score): the stored element is left
\* as it was, the copy carries the score
AnnoterCopie(element, score) ==
    [stocke |-> element,
     resultat |-> [k \in DOMAIN element \cup {"similarite_semantique"} |->
                      IF k = "similarite_semantique" THEN score ELSE element[k]]]

\* a detailed scoring that encodes the query and computes the similarities
\* once per corpus item, inside the loop
obtenir_scores_detailles_par_element(idx, requete) ==
    IF NonPret(idx) THEN [erreur |-> "NotReady"]
    ELSE LET similarities == Similarites(idx, requete)
             lecture == ErreurDeLecture(idx, similarities)
         IN  IF lecture # "aucune" THEN [erreur |-> lecture]
             ELSE LET annotes ==
                          [i \in 1..Len(similarities) |->
                              AnnoterCopie(idx.referentiel_texts.v[i],
                                           similarities[i])]
                      entrees ==
                          [i \in 1..Len(annotes) |->
                              [val |-> annotes[i].resultat,
                               cle |-> annotes[i].resultat.similarite_semantique]]
                      triees == TrierParCle(<<>>, entrees)
                  IN  [resultats |-> [i \in 1..Len(triees) |-> triees[i].val],
                       stockes |-> [i \in 1..Len(annotes) |-> annotes[i].stocke],
                       appels |-> [encoder_textes |-> Len(similarities),
                                   calculer_similarite_cosinus |-> Len(similarities)]]

\* MoteurNLP.obtenir_scores_detailles: the list returned, the stored list
\* after the call, and how many times the call ran encoder_textes and
\* calculer_similarite_cosinus (both stand before the loop)
obtenir_scores_detailles(idx, requete) ==
    IF NonPret(idx) THEN [erreur |-> "NotReady"]
    ELSE LET similarities == Similarites(idx, requete)
             lecture == ErreurDeLecture(idx, similarities)
         IN  IF lecture # "aucune" THEN [erreur |-> lecture]
             ELSE LET annotes ==
                          [i \in 1..Len(similarities) |->
                              AnnoterCopie(idx.referentiel_texts.v[i],
                                           similarities[i])]
                      n == Len(idx.referentiel_texts.v)
                      entrees ==
                          [i \in 1..Len(annotes) |->
                              [val |-> annotes[i].resultat,
                               cle |-> annotes[i].resultat.similarite_semantique]]
                      triees == TrierParCle(<<>>, entrees)
                  IN  [resultats |-> [i \in 1..Len(triees) |-> triees[i].val],
                       stockes |->
                          [i \in 1..n |->
                              IF i <= Len(annotes) THEN annotes[i].stocke
                              ELSE idx.referentiel_texts.v[i]],
                       appels |-> [encoder_textes |-> 1,
                                   calculer_similarite_cosinus |-> 1]]

\* MoteurNLP.charger_cache: the value returned and the index after the call
charger_cache(idx, fichier) ==
    IF fichier.etat = "missing" THEN [retour |-> FALSE, index |-> idx]
    ELSE IF fichier.etat = "corrupt" THEN [retour |-> FALSE, index |-> idx]
    ELSE IF fichier.etat = "pickle_list" THEN [retour |-> FALSE, index |-> idx]
    ELSE LET cache_data == fichier.value
         IN  IF "embeddings" \notin DOMAIN cache_data
             THEN [retour |-> FALSE, index |-> idx]
             ELSE LET apres == [idx EXCEPT !.referentiel_embeddings =
                                               Some(cache_data.embeddings)]
                  IN  IF "texts" \notin DOMAIN cache_data
                      THEN [retour |-> FALSE, index |-> apres]
                      ELSE [retour |-> TRUE,
                            index |-> [apres EXCEPT !.referentiel_texts =
                                                        Some(cache_data.texts)]]

\* MoteurNLP.preparer_referentiel: the index after the call; the same two
\* values are written to the cache file
preparer_referentiel(textes_referentiel) ==
    [referentiel_embeddings |-> Some(encoder_textes(TextesBruts(textes_referentiel))),
     referentiel_texts |-> Some(textes_referentiel)]

Requetes == {Q1, Q2}
TopKChoices == {0, 1, 2, 10}
FiltreChoices == {NoneVal, Some(T_chanson), Some(<<"p", "l", "a", "y", "l", "i", "s", "t">>)}
TypesChoices == {<<>>, <<T_chanson, T_mood>>, <<T_chanson, T_ambiance>>}

\* no request is being scored
SansRequete ==
    /\ corpus = <<>> /\ args = NoArgs
    /\ elements_scores = <<>> /\ recommandations = <<>>

InitIndex ==
    /\ index = [referentiel_embeddings |-> NoneVal, referentiel_texts |-> NoneVal]
    /\ cache \in CacheFiles
    /\ nlp_res = [construit |-> FALSE]
    /\ pc = "init"
    /\ SansRequete
    /\ PureIdle
    /\ quest = NoneVal
    /\ api = NoneVal

\* the variables no MoteurNLP call touches
HorsIndex == <<corpus, args, m_texte, m_mood, m_score, a_prefs, a_feat, a_score, quest, api>>

\* the cache file is removed or replaced from outside the process
FichierRemplace ==
    /\ \E f \in CacheFiles : f # cache /\ cache' = f
    /\ pc' = "fichier_remplace"
    /\ nlp_res' = [construit |-> nlp_res.construit]
    /\ elements_scores' = <<>> /\ recommandations' = <<>>
    /\ UNCHANGED <<index, HorsIndex>>

PreparerReferentiel ==
    /\ \E c \in Corpora :
          /\ index' = preparer_referentiel(c)
          /\ cache' = CacheDe(c)
    /\ pc' = "preparer_referentiel"
    /\ nlp_res' = [construit |-> TRUE]
    /\ elements_scores' = <<>> /\ recommandations' = <<>>
    /\ UNCHANGED HorsIndex

ChargerCache ==
    /\ LET r == charger_cache(index, cache)
       IN  /\ index' = r.index
           /\ nlp_res' = [construit |-> nlp_res.construit \/ r.retour,
                          retour |-> r.retour]
    /\ pc' = "charger_cache"
    /\ elements_scores' = <<>> /\ recommandations' = <<>>
    /\ UNCHANGED <<cache, HorsIndex>>

\* the outcome of a lookup, with its arguments and the history flag carried
\* over
Issue(r, appel) ==
    IF "erreur" \in DOMAIN r
    THEN [construit |-> nlp_res.construit, appel |-> appel, erreur |-> r.erreur]
    ELSE [construit |-> nlp_res.construit, appel |-> appel,
          resultats |-> r.resultats]

RechercherSimilaires ==
    /\ \E q \in Requetes, k \in TopKChoices, f \in FiltreChoices :
          nlp_res' = Issue(rechercher_similaires(index, q, k, f),
                           [requete |-> q, top_k |-> k, filtre_type |-> f])
    /\ pc' = "rechercher_similaires"
    /\ elements_scores' = <<>> /\ recommandations' = <<>>
    /\ UNCHANGED <<index, cache, HorsIndex>>

RechercherParType ==
    /\ \E q \in Requetes, t \in TypesChoices, k \in TopKChoices :
          nlp_res' = Issue(rechercher_par_type(index, q, t, k),
                           [requete |-> q, types |-> t, top_k_par_type |-> k])
    /\ pc' = "rechercher_par_type"
    /\ elements_scores' = <<>> /\ recommandations' = <<>>
    /\ UNCHANGED <<index, cache, HorsIndex>>

ObtenirScoresDetailles ==
    /\ \E q \in Requetes :
          LET r == obtenir_scores_detailles(index, q)
          IN  /\ nlp_res' =
                     Issue(r, IF "erreur" \in DOMAIN r THEN [requete |-> q]
                              ELSE [requete |-> q, appels |-> r.appels])
              /\ index' = IF "erreur" \in DOMAIN r THEN index
                          ELSE [index EXCEPT !.referentiel_texts = Some(r.stockes)]
    /\ pc' = "obtenir_scores_detailles"
    /\ elements_scores' = <<>> /\ recommandations' = <<>>
    /\ UNCHANGED <<cache, HorsIndex>>

\* calculer_scores_elements on the list obtenir_scores_detailles returned
ScorerResultats ==
    /\ pc = "obtenir_scores_detailles"
    /\ "resultats" \in DOMAIN nlp_res
    /\ \E p \in PrefsChoices, g \in GenresChoices :
          elements_scores' =
              calculer_scores_elements(nlp_res.resultats, p, festif, <<>>, g, 1)
    /\ pc' = "calculer_scores_elements"
    /\ UNCHANGED <<index, cache, nlp_res, recommandations, HorsIndex>>

\* generer_recommandations on the scored list
RecommanderResultats ==
    /\ pc = "calculer_scores_elements"
    /\ recommandations' = generer_recommandations(elements_scores, 10)
    /\ pc' = "generer_recommandations"
    /\ UNCHANGED <<index, cache, nlp_res, elements_scores, HorsIndex>>

NextIndex ==
    \/ FichierRemplace
    \/ PreparerReferentiel
    \/ ChargerCache
    \/ RechercherSimilaires
    \/ RechercherParType
    \/ ObtenirScoresDetailles
    \/ ScorerResultats
    \/ RecommanderResultats

SpecIndex == InitIndex /\ [][NextIndex]_vars

-----------------------------------------------------------------------------
(* Properties of the embedding index.                                       *)

IndexVide == [referentiel_embeddings |-> NoneVal, referentiel_texts |-> NoneVal]

\* C15: charger_cache on a missing or corrupted cache file, a file whose value
\* lacks an expected entry included, returns False and leaves the index as it
\* was before the call; an index that was not ready stays not ready, with
\* neither the embedding matrix nor the corpus set.
C15_FailedLoadLeavesIndex ==
    [][(pc' = "charger_cache" /\ nlp_res'.retour = FALSE)
          => /\ index' = index
             /\ (~nlp_res.construit => index' = IndexVide)]_vars

Lookups == {"rechercher_similaires", "rechercher_par_type", "obtenir_scores_detailles"}

\* C16: a lookup made before preparer_referentiel has completed or
\* charger_cache has returned True fails with the not-ready error and returns
\* no result, also after any number of failed charger_cache calls.
C16_LookupBeforeReadyFails ==
    (pc \in Lookups /\ ~nlp_res.construit) =>
        ("erreur" \in DOMAIN nlp_res /\ nlp_res.erreur = "NotReady")

\* row i of the matrix is the embedding of corpus item i
Aligne(idx) ==
    /\ idx.referentiel_embeddings # NoneVal
    /\ idx.referentiel_texts # NoneVal
    /\ Len(idx.referentiel_embeddings.v) = Len(idx.referentiel_texts.v)
    /\ \A i \in 1..Len(idx.referentiel_texts.v) :
          idx.referentiel_embeddings.v[i] = Embedding(idx.referentiel_texts.v[i].text)

\* C17: after any sequence of preparer_referentiel, charger_cache and lookup
\* calls, the embedding matrix and the corpus list are both unset, or both set
\* with equal length and row i of the matrix the embedding of corpus item i.
C17_MatrixAndCorpusAligned == index = IndexVide \/ Aligne(index)

Lectures == Lookups \cup {"calculer_scores_elements", "generer_recommandations"}

\* C18: once the index is ready, every lookup and scoring operation leaves the
\* embedding matrix, the corpus list, its order and the fields of the stored
\* items unchanged.
C18_LookupsLeaveIndex ==
    [][(~NonPret(index) /\ pc' \in Lectures) => index' = index]_vars

\* a request went through lookup, scoring and ranking on a built index: the
\* returned items carry similarity and scores, the stored ones neither
C18_Witness ==
    /\ pc = "generer_recommandations"
    /\ index = preparer_referentiel(CorpusA)
    /\ Len(nlp_res.resultats) = Len(CorpusA)
    /\ \A i \in 1..Len(nlp_res.resultats) :
          "similarite_semantique" \in DOMAIN nlp_res.resultats[i]
    /\ \A i \in 1..Len(elements_scores) : "scores" \in DOMAIN elements_scores[i]
    /\ Len(recommandations.top_recommandations) = Len(CorpusA)
    /\ \A i \in 1..Len(CorpusA) :
          DOMAIN index.referentiel_texts.v[i]
              \cap {"similarite_semantique", "scores"} = {}

-----------------------------------------------------------------------------
(* The lists the lookups return on a ready index.                           *)

\* the index is ready: matrix and corpus are set and row i is the embedding
\* of corpus item i, as a completed preparer_referentiel or a charger_cache
\* that returned True leaves them
Pret(idx) == Aligne(idx)

\* the cosine of the query and row i of the matrix
SimilariteDe(idx, requete, i) ==
    R(Dot(Embedding(requete), idx.referentiel_embeddings.v[i]),
      Norme(Embedding(requete)) * Norme(idx.referentiel_embeddings.v[i]))

\* the rows whose corpus item has the requested kind (every row for no kind)
RangsDuType(idx, filtre_type) ==
    {i \in 1..Len(idx.referentiel_texts.v) :
        filtre_type = NoneVal \/ Some(idx.referentiel_texts.v[i].type) = filtre_type}

\* row i comes before row j in the ranking for the query: higher similarity,
\* or equal similarity and earlier in the corpus
Devance(idx, requete, i, j) ==
    \/ RLt(SimilariteDe(idx, requete, j), SimilariteDe(idx, requete, i))
    \/ /\ SimilariteDe(idx, requete, i) = SimilariteDe(idx, requete, j)
       /\ i < j

\* liste holds the top_k best rows of the kind, as (item, similarity) pairs,
\* best first
MeilleursDuType(liste, idx, requete, filtre_type, top_k) ==
    LET rangs == RangsDuType(idx, filtre_type)
        Rang(p) == CHOOSE i \in rangs : idx.referentiel_texts.v[i] = liste[p][1]
    IN  /\ Len(liste) = Minimum(top_k, Cardinality(rangs))
        /\ \A p \in 1..Len(liste) :
              \E i \in rangs :
                  liste[p] = <<idx.referentiel_texts.v[i],
                               SimilariteDe(idx, requete, i)>>
        /\ \A p, q \in 1..Len(liste) :
              p < q => Devance(idx, requete, Rang(p), Rang(q))
        /\ \A i \in rangs :
              (\A p \in 1..Len(liste) : Rang(p) # i)
                  => \A p \in 1..Len(liste) : Devance(idx, requete, Rang(p), i)

\* C23: for a ready index, rechercher_similaires and rechercher_par_type
\* return, for each requested kind, a list that contains only corpus items of
\* that kind, has at most k entries, holds the k highest-similarity items of
\* that kind sorted by similarity descending with ties in original corpus
\* order; a requested kind with no corpus items yields an empty list and never
\* an error.
C23_TopKPerKind ==
    /\ (pc = "rechercher_similaires" /\ Pret(index)) =>
          /\ "resultats" \in DOMAIN nlp_res
          /\ MeilleursDuType(nlp_res.resultats, index, nlp_res.appel.requete,
                             nlp_res.appel.filtre_type, nlp_res.appel.top_k)
    /\ (pc = "rechercher_par_type" /\ Pret(index)) =>
          /\ "resultats" \in DOMAIN nlp_res
          /\ DOMAIN nlp_res.resultats
                 = {nlp_res.appel.types[i] : i \in 1..Len(nlp_res.appel.types)}
          /\ \A t \in DOMAIN nlp_res.resultats :
                MeilleursDuType(nlp_res.resultats[t], index,
                                nlp_res.appel.requete, Some(t),
                                nlp_res.appel.top_k_par_type)

\* a corpus of four songs and a mood, asked for songs and ambiances: the two
\* best songs for the query have the same similarity and come back in corpus
\* order, two more songs are left out, and the kind the corpus lacks gets an
\* empty list
C23_Witness ==
    /\ pc = "rechercher_par_type"
    /\ index = preparer_referentiel(CorpusC)
    /\ nlp_res.appel = [requete |-> Q2, types |-> <<T_chanson, T_ambiance>>,
                        top_k_par_type |-> 2]
    /\ "resultats" \in DOMAIN nlp_res
    /\ nlp_res.resultats[T_chanson]
           = << <<CorpusC[3], R(4, 5)>>, <<CorpusC[5], R(4, 5)>> >>
    /\ nlp_res.resultats[T_ambiance] = <<>>

\* an element of the returned list without its similarity
SansSimilarite(e) == [k \in DOMAIN e \ {"similarite_semantique"} |-> e[k]]

-----------------------------------------------------------------------------
(* services/questionnaire_service.py: the Likert answers of a profile.      *)
(*                                                                          *)
(*  - A submitted value is [t |-> its Python type, n |-> its number]; a     *)
(*    value that is no number has no field n.  isinstance(valeur, int) is   *)
(*    true of an int and of a bool (True is 1, False is 0).                 *)
(*  - The dimension written "energie" is the source's "énergie".            *)
(*  - reponses_structurees carries a timestamp as well; it is left out.     *)

\* self.questions_likert: id and dimension, in the order of the source
questions_likert ==
    << [id |-> "q1_energie",   dimension |-> "energie"],
       [id |-> "q2_calme",     dimension |-> "calme"],
       [id |-> "q3_danse",     dimension |-> "danceability"],
       [id |-> "q4_joyeux",    dimension |-> "valence"],
       [id |-> "q5_acoustique", dimension |-> "acousticness"],
       [id |-> "q6_intensite", dimension |-> "loudness"],
       [id |-> "q7_rythme",    dimension |-> "bpm"],
       [id |-> "q8_nouveaute", dimension |-> "ouverture"] >>

QuestionIds == {questions_likert[i].id : i \in 1..Len(questions_likert)}

DimensionDe(q_id) ==
    (CHOOSE q \in {questions_likert[i] : i \in 1..Len(questions_likert)} :
        q.id = q_id).dimension

\* self.questions_ouvertes: ids and types
OuvertesIds == {"qo1_mood", "qo2_contexte", "qo3_artistes", "qo4_genres", "qo5_emotions"}

TypeOuverte(q_id) == IF q_id \in {"qo3_artistes", "qo4_genres"} THEN "liste" ELSE "texte_libre"

\* isinstance(valeur, int) and 1 <= valeur <= 5
LikertValide(valeur) == valeur.t \in {"int", "bool"} /\ 1 <= valeur.n /\ valeur.n <= 5

\* a collection that rejects the whole Likert block when one answer is malformed
collecter_reponses_dict_tout_ou_rien(reponses_dict) ==
    LET donnees == Get(reponses_dict, "likert", EmptyDict)
        gardees == IF \A q \in DOMAIN donnees : LikertValide(donnees[q])
                   THEN DOMAIN donnees \cap QuestionIds ELSE {}
    IN  [likert |-> [q \in gardees |->
                        [valeur |-> donnees[q], dimension |-> DimensionDe(q)]],
         ouvertes |-> Get(reponses_dict, "ouvertes", EmptyDict)]

\* QuestionnaireService.collecter_reponses_dict; an answer to a question of
\* type "liste" is given as a list (the split of a comma-separated string is
\* not modelled)
collecter_reponses_dict(reponses_dict) ==
    LET donnees == Get(reponses_dict, "likert", EmptyDict)
        gardees == {q \in DOMAIN donnees \cap QuestionIds : LikertValide(donnees[q])}
        libres == Get(reponses_dict, "ouvertes", EmptyDict)
    IN  [likert |-> [q \in gardees |->
                        [valeur |-> donnees[q], dimension |-> DimensionDe(q)]],
         ouvertes |-> [q \in DOMAIN libres \cap OuvertesIds |->
                          [valeur |-> libres[q], type |-> TypeOuverte(q)]]]

\* the preference key a dimension is written to
ClePreference(dimension) ==
    CASE dimension = "energie"      -> "energy"
      [] dimension = "calme"        -> "calmness"
      [] dimension = "danceability" -> "danceability"
      [] dimension = "valence"      -> "valence"
      [] dimension = "acousticness" -> "acousticness"
      [] dimension = "loudness"     -> "loudness"
      [] dimension = "bpm"          -> "tempo"
      [] dimension = "ouverture"    -> "openness"

\* the normalised value of an answer 1..5 for a dimension
ValeurPreference(dimension, valeur) ==
    CASE dimension = "loudness"  -> RAdd(R(-30, 1), RMul(R(valeur - 1, 1), R(15, 2)))
      [] dimension = "bpm"       -> R(60 + (valeur - 1) * 30, 1)
      [] dimension = "ouverture" -> R(valeur, 5)
      [] OTHER                   -> R(valeur - 1, 4)

\* QuestionnaireService.extraire_preferences_audio
extraire_preferences_audio(reponses) ==
    LET likert_responses == Get(reponses, "likert", EmptyDict)
        cles == {ClePreference(likert_responses[q].dimension) :
                    q \in DOMAIN likert_responses}
    IN  [c \in cles |->
            LET q == CHOOSE x \in DOMAIN likert_responses :
                         ClePreference(likert_responses[x].dimension) = c
            IN  ValeurPreference(likert_responses[q].dimension,
                                 likert_responses[q].valeur.n)]

MaxAnswers == 2

\* the keys a profile may carry: the eight questions and an unknown id
CleChoices == QuestionIds \cup {"q9_autre"}

\* the values a profile may carry: ints inside and outside 1..5, booleans, a
\* float, a string, None
ValeurChoices ==
    {[t |-> "int", n |-> 0], [t |-> "int", n |-> 1], [t |-> "int", n |-> 5],
     [t |-> "int", n |-> 6], [t |-> "bool", n |-> 1], [t |-> "bool", n |-> 0],
     [t |-> "float", n |-> 3], [t |-> "str"], [t |-> "NoneType"]}

Profils ==
    UNION {[K -> ValeurChoices] :
              K \in {S \in SUBSET CleChoices : Cardinality(S) <= MaxAnswers}}

InitQuest ==
    /\ \E f \in Profils : quest = [reponses_dict |-> [likert |-> f]]
    /\ pc = "quest_call"
    /\ SansRequete
    /\ PureIdle
    /\ index = IndexVide
    /\ cache = [etat |-> "missing"]
    /\ nlp_res = NoneVal
    /\ api = NoneVal

HorsQuest == <<corpus, args, elements_scores, recommandations, m_texte, m_mood, m_score, a_prefs, a_feat, a_score, index, cache, nlp_res, api>>

CollecterReponses ==
    /\ pc = "quest_call"
    /\ quest' = [reponses_dict |-> quest.reponses_dict,
                 reponses_structurees |-> collecter_reponses_dict(quest.reponses_dict)]
    /\ pc' = "quest_collected"
    /\ UNCHANGED HorsQuest

ExtrairePreferences ==
    /\ pc = "quest_collected"
    /\ quest' = [reponses_dict |-> quest.reponses_dict,
                 reponses_structurees |-> quest.reponses_structurees,
                 preferences |-> extraire_preferences_audio(quest.reponses_structurees)]
    /\ pc' = "quest_extracted"
    /\ UNCHANGED HorsQuest

NextQuest == CollecterReponses \/ ExtrairePreferences

SpecQuest == InitQuest /\ [][NextQuest]_vars

-----------------------------------------------------------------------------
(* Properties of the questionnaire.                                         *)

\* the submitted Likert answers
Soumises == quest.reponses_dict.likert

\* the questions answered with an integer of 1..5
Valides == {q \in DOMAIN Soumises \cap QuestionIds :
               Soumises[q].t \in {"int", "bool"} /\ Soumises[q].n \in 1..5}

\* C19: a Likert answer outside 1..5 or not an integer is dropped on its own:
\* it is absent from the structured answers, every valid answer of the profile
\* is kept with its value, and extraire_preferences_audio produces exactly the
\* preference keys of the valid answers.
C19_MalformedAnswerDroppedAlone ==
    /\ pc \in {"quest_collected", "quest_extracted"} =>
          /\ DOMAIN quest.reponses_structurees.likert = Valides
          /\ \A q \in Valides :
                quest.reponses_structurees.likert[q].valeur = Soumises[q]
    /\ pc = "quest_extracted" =>
          /\ DOMAIN quest.preferences = {ClePreference(DimensionDe(q)) : q \in Valides}
          /\ Cardinality(DOMAIN quest.preferences) = Cardinality(Valides)

\* a profile with one answer out of range and one valid answer: the valid one
\* alone is structured and gives the only preference key
C19_Witness ==
    /\ pc = "quest_extracted"
    /\ DOMAIN Soumises = {"q1_energie", "q7_rythme"}
    /\ Soumises["q1_energie"] = [t |-> "int", n |-> 6]
    /\ Soumises["q7_rythme"] = [t |-> "int", n |-> 5]
    /\ DOMAIN quest.reponses_structurees.likert = {"q7_rythme"}
    /\ quest.preferences = [tempo |-> R(180, 1)]

-----------------------------------------------------------------------------
(* api.py: VibeyfAIBackend.process_recommendation, with the optional        *)
(* GeminiService (services/gemini_service.py).                              *)
(*                                                                          *)
(*  - user_id, timestamp and spotify_search_url of the response are left    *)
(*    out.  round(x, 3) is taken on the exact rational, half to even.       *)
(*  - The provider is outside the program: a call to it returns a text or   *)
(*    raises, and so does the report generator.                             *)

MIN_WORDS_FOR_ENRICHMENT == 5

Espace == " "

\* len(texte.strip().split())
NbMots(texte) ==
    Cardinality({i \in 1..Len(texte) :
                    texte[i] # Espace /\ (i = 1 \/ texte[i - 1] = Espace)})

\* str.strip()
RECURSIVE Strip(_)
Strip(texte) ==
    IF texte = <<>> THEN texte
    ELSE IF Head(texte) = Espace THEN Strip(Tail(texte))
    ELSE IF texte[Len(texte)] = Espace THEN Strip(SubSeq(texte, 1, Len(texte) - 1))
    ELSE texte

\* sep.join(textes)
RECURSIVE Join(_, _)
Join(textes, sep) ==
    IF textes = <<>> THEN <<>>
    ELSE IF Len(textes) = 1 THEN textes[1]
    ELSE textes[1] \o sep \o Join(Tail(textes), sep)

JEcoutePrincipalement ==
    <<"J", "'", "e'", "c", "o", "u", "t", "e", " ", "p", "r", "i", "n",
      "c", "i", "p", "a", "l", "e", "m", "e", "n", "t", " ">>

JAimeLesArtistesComme ==
    <<"J", "'", "a", "i", "m", "e", " ", "l", "e", "s", " ", "a", "r",
      "t", "i", "s", "t", "e", "s", " ", "c", "o", "m", "m", "e",
      " ">>

\* the text a free answer adds, if the answer is present and not empty
TexteLibre(ouvertes, q_id) ==
    IF q_id \in DOMAIN ouvertes /\ ouvertes[q_id].valeur # <<>>
    THEN <<ouvertes[q_id].valeur>> ELSE <<>>

\* the sentence a list answer adds, if the answer is present and not empty
TexteListe(ouvertes, q_id, prefixe) ==
    IF q_id \in DOMAIN ouvertes /\ ouvertes[q_id].valeur # <<>>
    THEN LET items == SelectSeq(ouvertes[q_id].valeur, LAMBDA a : a # <<>>)
             propres == [i \in 1..Len(items) |-> Strip(items[i])]
         IN  IF propres = <<>> THEN <<>>
             ELSE <<prefixe \o Join(propres, <<",", Espace>>)>>
    ELSE <<>>

\* QuestionnaireService.extraire_texte_semantique
extraire_texte_semantique(reponses) ==
    LET ouvertes == Get(reponses, "ouvertes", EmptyDict)
    IN  Join(TexteLibre(ouvertes, "qo1_mood")
                 \o TexteLibre(ouvertes, "qo2_contexte")
                 \o TexteLibre(ouvertes, "qo5_emotions")
                 \o TexteListe(ouvertes, "qo3_artistes", JAimeLesArtistesComme)
                 \o TexteListe(ouvertes, "qo4_genres", JEcoutePrincipalement),
             <<Espace>>)

\* QuestionnaireService.extraire_genres_preferes
extraire_genres_preferes(reponses) ==
    LET ouvertes == Get(reponses, "ouvertes", EmptyDict)
    IN  IF "qo4_genres" \in DOMAIN ouvertes
        THEN LET items == SelectSeq(ouvertes["qo4_genres"].valeur, LAMBDA g : g # <<>>)
             IN  [i \in 1..Len(items) |-> Lower(Strip(items[i]))]
        ELSE <<>>

\* QuestionnaireService.extraire_niveau_ouverture
extraire_niveau_ouverture(reponses) ==
    LET likert_responses == Get(reponses, "likert", EmptyDict)
    IN  IF "q8_nouveaute" \in DOMAIN likert_responses
        THEN likert_responses["q8_nouveaute"].valeur.n
        ELSE 3

\* what the provider answers when it answers
ReponseFournisseur ==
    <<"m", "u", "s", "i", "q", "u", "e", " ", "c", "a", "l", "m", "e",
      " ">>

\* an enrichment that gives the provider's failure back as an empty text
enrichir_texte_court_vide(service, texte, issue) ==
    IF NbMots(texte) >= MIN_WORDS_FOR_ENRICHMENT THEN [retour |-> texte]
    ELSE IF service.model = NoneVal THEN [erreur |-> "ValueError"]
    ELSE IF issue = "ok" THEN [retour |-> Strip(ReponseFournisseur)]
    ELSE [retour |-> <<>>]

\* GeminiService.enrichir_texte_court; issue is what the provider does if it is
\* called: "ok" or "raises"
enrichir_texte_court(service, texte, issue) ==
    IF NbMots(texte) >= MIN_WORDS_FOR_ENRICHMENT THEN [retour |-> texte]
    ELSE IF service.model = NoneVal THEN [erreur |-> "ValueError"]
    ELSE IF issue = "ok" THEN [retour |-> Strip(ReponseFournisseur)]
    ELSE [retour |-> texte]

\* self.use_gemini and self.gemini and self.gemini.model
GeminiDisponible(backend) ==
    /\ backend.use_gemini
    /\ backend.gemini # NoneVal
    /\ backend.gemini.v.model # NoneVal

\* round(x, 3)
Arrondi3(x) ==
    LET q == (x.n * 1000) \div x.d
        r == (x.n * 1000) - q * x.d
    IN  IF 2 * r > x.d THEN R(q + 1, 1000)
        ELSE IF 2 * r < x.d THEN R(q, 1000)
        ELSE IF q % 2 = 0 THEN R(q, 1000) ELSE R(q + 1, 1000)

\* one entry of the 'recommandations' list of the response
FormatRecommandation(i, r) ==
    [rang |-> i,
     type |-> r.type,
     id |-> r.id,
     nom |-> Get(r.data, "nom", r.id),
     artiste |-> IF r.type = T_chanson THEN Some(Get(r.data, "artiste", EmptyStr))
                 ELSE NoneVal,
     genre |-> IF r.type = T_chanson
               THEN Some(Get(r, "genre", Get(r.data, "genre", EmptyStr)))
               ELSE NoneVal,
     description |-> Get(r.data, "description", EmptyStr),
     score_global |-> Arrondi3(r.scores.global),
     details_scores |->
         [similarite_semantique |-> Arrondi3(r.scores.similarite_semantique),
          mood_match |-> Arrondi3(r.scores.mood_match),
          preferences_likert |-> Arrondi3(r.scores.preferences_likert),
          audio_features |-> Arrondi3(r.scores.audio_features),
          genre_boost |-> Arrondi3(r.scores.genre_boost)],
     caracteristiques |-> Get(r.data, "caracteristiques_moyennes", EmptyDict)]

\* VibeyfAIBackend._format_response
FormatResponse(recos, rapport_genai, genres_preferes, niveau_ouverture) ==
    [genres_preferes |-> genres_preferes,
     niveau_ouverture |-> niveau_ouverture,
     recommandations |->
         [i \in 1..Len(recos.top_recommandations) |->
             FormatRecommandation(i, recos.top_recommandations[i])],
     statistiques |-> recos.statistiques,
     rapport_genai |-> rapport_genai]

\* VibeyfAIBackend.process_recommendation: the texts passed on and the
\* response, or the error that ends the call
process_recommendation(backend, idx, reponses_utilisateur, issue_enrichissement, issue_rapport) ==
    LET reponses_structurees == collecter_reponses_dict(reponses_utilisateur)
        texte_utilisateur == extraire_texte_semantique(reponses_structurees)
        enrichi ==
            IF GeminiDisponible(backend)
            THEN enrichir_texte_court(backend.gemini.v, texte_utilisateur,
                                      issue_enrichissement)
            ELSE [retour |-> texte_utilisateur]
        texte_enrichi ==
            IF "erreur" \in DOMAIN enrichi THEN texte_utilisateur ELSE enrichi.retour
        lookup == obtenir_scores_detailles(idx, texte_enrichi)
    IN  IF "erreur" \in DOMAIN lookup
        THEN [erreur |-> lookup.erreur, texte_utilisateur |-> texte_utilisateur,
              texte_index |-> texte_enrichi]
        ELSE
        LET preferences_audio == extraire_preferences_audio(reponses_structurees)
            genres_preferes == extraire_genres_preferes(reponses_structurees)
            niveau_ouverture == extraire_niveau_ouverture(reponses_structurees)
            scored == calculer_scores_elements(lookup.resultats, preferences_audio,
                                               texte_enrichi, <<>>, genres_preferes,
                                               niveau_ouverture)
            recos == generer_recommandations(scored, 10)
            rapport_genai ==
                IF GeminiDisponible(backend) /\ issue_rapport = "ok"
                THEN Some([synthese |-> "texte", plan_progression |-> "texte"])
                ELSE NoneVal
        IN  IF "erreur" \in DOMAIN recos
            THEN [erreur |-> recos.erreur, texte_utilisateur |-> texte_utilisateur,
                  texte_index |-> texte_enrichi, texte_scorer |-> texte_enrichi]
            ELSE [texte_utilisateur |-> texte_utilisateur,
                  texte_index |-> texte_enrichi,
                  texte_scorer |-> texte_enrichi,
                  stockes |-> lookup.stockes,
                  reponse |-> FormatResponse(recos, rapport_genai, genres_preferes,
                                             niveau_ouverture)]

\* the three ways the constructor leaves the optional service: not asked for,
\* asked for without an API key (model None), asked for and configured
Backends ==
    {[use_gemini |-> FALSE, gemini |-> NoneVal],
     [use_gemini |-> TRUE, gemini |-> Some([model |-> NoneVal])],
     [use_gemini |-> TRUE, gemini |-> Some([model |-> Some("gemini-2.5-flash")])]}

BackendDisponible ==
    [use_gemini |-> TRUE, gemini |-> Some([model |-> Some("gemini-2.5-flash")])]

TexteCourt == festif

TexteLong ==
    <<"c", "a", "l", "m", "e", " ", "e", "t", " ", "j", "o", "y", "e",
      "u", "x", " ", "c", "e", " ", "s", "o", "i", "r">>

LikertChoices ==
    {EmptyDict,
     [q8_nouveaute |-> [t |-> "int", n |-> 1], q1_energie |-> [t |-> "int", n |-> 5],
      q6_intensite |-> [t |-> "int", n |-> 6]]}

OuvertesChoices ==
    {[qo1_mood |-> t] : t \in {TexteCourt, TexteLong}}
    \cup {[qo1_mood |-> t, qo4_genres |-> <<RockCap>>] : t \in {TexteCourt, TexteLong}}

Requests == {[likert |-> l, ouvertes |-> o] : l \in LikertChoices, o \in OuvertesChoices}

Issues == {"ok", "raises"}

\* VibeyfAIBackend.__init__: the index is loaded from the cache or built
InitApi ==
    /\ \E b \in Backends : api = [backend |-> b]
    /\ \E c \in Corpora : index = preparer_referentiel(c) /\ cache = CacheDe(c)
    /\ nlp_res = [construit |-> TRUE]
    /\ pc = "api_init"
    /\ SansRequete
    /\ PureIdle
    /\ quest = NoneVal

HorsApi == <<corpus, args, elements_scores, recommandations, m_texte, m_mood, m_score, a_prefs, a_feat, a_score, cache, nlp_res, quest>>

ProcessRecommendation ==
    /\ \E req \in Requests, ie \in Issues, ir \in Issues :
          api' = [backend |-> api.backend, requete |-> req,
                  issue_enrichissement |-> ie, issue_rapport |-> ir,
                  resultat |-> process_recommendation(api.backend, index, req, ie, ir)]
    /\ index' = IF "stockes" \in DOMAIN api'.resultat
                THEN [index EXCEPT !.referentiel_texts = Some(api'.resultat.stockes)]
                ELSE index
    /\ pc' = "process_recommendation"
    /\ UNCHANGED HorsApi

NextApi == ProcessRecommendation

SpecApi == InitApi /\ [][NextApi]_vars

-----------------------------------------------------------------------------
(* Properties of process_recommendation.                                    *)

\* the same request served by a backend whose report generator succeeds and
\* whose enrichment gives the same text
Reference ==
    process_recommendation(BackendDisponible, index, api.requete,
                           IF GeminiDisponible(api.backend)
                           THEN api.issue_enrichissement ELSE "raises",
                           "ok")

====
